---- MODULE Spec2Model ----
(***************************************************************************)
(* A model of src/src/lsp_client.py: the JSON-RPC dispatcher               *)
(* (JsonRpcDispatcher) over a byte stream, and the LSP session (LspClient) *)
(* on top of it.                                                           *)
(*                                                                         *)
(* The inbound stream is a sequence of tokens.  A token stands for a fixed *)
(* piece of text that holds no line terminator: "NL" is "\r\n", ":" a      *)
(* colon, "SP" a space, "CL" the text Content-Length, "CT" the text        *)
(* Content-Type, "XT" the name of another header, "utf8" a media type     *)
(* that names utf-8, "latin" one that does not, "0".."9" a digit, "-" a    *)
(* minus sign, "a" and "p" a letter, and the remaining tokens are pieces   *)
(* of a                                                                    *)
(* JSON body ("{", "}", "[", "]" and one token per member of an object).   *)
(* A token counts as one byte for Content-Length.                          *)
(*                                                                         *)
(* A member whose value is a text is written piece by piece: "prm<" opens  *)
(* the member params, ">" closes it, and between them comes one token per  *)
(* character: an ASCII character, the escape \u00e9 (ASCII), or the two    *)
(* bytes "0xC3" "0xA9" of the UTF-8 form of the character "U+00E9".         *)
(***************************************************************************)
EXTENDS Integers, Sequences, FiniteSets, TLC

\* ------------------------------------------------------------- bounds
MaxCallers == 2
MaxStops == 1
MaxFrames == 2
MaxTextLen == 1
MaxDocOps == 4
MaxNotes == 1
MaxTasks == 2
MaxSelections == 2
MaxChanges == 1

Callers == 1..MaxCallers

VARIABLES
    callback_id,      \* JsonRpcDispatcher._callback_id
    callbacks,        \* JsonRpcDispatcher._callbacks: id -> future (named by its creator)
    futures,          \* the asyncio.Future each send() created
    read_loop_task,   \* JsonRpcDispatcher._read_loop_task, with the task's state
    started,          \* start() has been called
    on_notification,  \* JsonRpcDispatcher.on_notification: 0 is None, else the handler
    inbuf,            \* the StreamReader's buffer: bytes received and not yet read
    eof,              \* feed_eof() has been called on the StreamReader
    written,          \* the messages handed to StreamWriter.write, in order
    caller,           \* each send() coroutine: position, id, awaited future, outcome
    notified,         \* every call of a notification handler: handler, method, params
    inlog,            \* every message _read_messages has yielded, in order
    sent,             \* the name of every frame the server has written
    stops,            \* number of stop() calls so far
    server_capabilities, \* LspClient.server_capabilities: <<>> is None, <<caps>> a value
    documents,        \* LspClient._documents: uri -> {text, version}
    work_progress,    \* LspClient.work_progress: the tokens of the requests in flight
    exiting,          \* number of exit() calls suspended in the drain of their notification
    last,             \* the last document operation called and how it ended
    ops,              \* number of document operations called so far
    window,           \* PyroseWindow: its LSP client, providers and start_lsp tasks
    on_close,         \* JsonRpcDispatcher.on_close: 0 is None, else the callback
    closes            \* number of calls of the on_close callback so far

rpcVars == <<callback_id, callbacks, futures, read_loop_task, started, on_notification,
             inbuf, eof, written, caller, notified, inlog, sent, stops>>

sessVars == <<server_capabilities, documents, work_progress, exiting, last, ops, window, on_close, closes>>

docVars == <<documents, last, ops>>

\* What the window's own steps leave alone.
winFrame == <<callback_id, callbacks, futures, read_loop_task, started, on_notification,
              inbuf, eof, written, caller, notified, inlog, sent, stops, server_capabilities,
              documents, work_progress, exiting, last, ops, on_close, closes>>

\* What a document operation leaves alone.
docFrame == <<callback_id, callbacks, futures, read_loop_task, started, on_notification,
              inbuf, eof, caller, notified, inlog, sent, stops, server_capabilities,
              work_progress, exiting, window, on_close, closes>>

vars == <<rpcVars, sessVars>>

\* ------------------------------------------------------------- tokens
Digit == <<"0", "1", "2", "3", "4", "5", "6", "7", "8", "9">>

DigitTok(n) == Digit[n + 1]

IsDigit(t) == \E i \in 1..Len(Digit) : Digit[i] = t

DigitVal(t) == (CHOOSE i \in 1..Len(Digit) : Digit[i] = t) - 1

RECURSIVE Decimal(_)
\* str(n), as in f"{len(content)}": the decimal digits of n >= 0.
Decimal(n) == IF n < 10 THEN <<DigitTok(n)>> ELSE Decimal(n \div 10) \o <<DigitTok(n % 10)>>

\* The members a JSON object of the model may have: token -> <<key, value>>.
Member(t) ==
    CASE t = "v2"   -> <<"jsonrpc", "2.0">>
      [] t = "v1"   -> <<"jsonrpc", "1.0">>
      [] t = "id1"  -> <<"id", 1>>
      [] t = "id2"  -> <<"id", 2>>
      [] t = "id3"  -> <<"id", 3>>
      [] t = "id0"  -> <<"id", 0>>
      [] t = "id9"  -> <<"id", 9>>
      [] t = "ra"   -> <<"result", "a">>
      [] t = "rb"   -> <<"result", "b">>
      [] t = "rc0"  -> <<"result", "caps0">>
      [] t = "rc1"  -> <<"result", "caps1">>
      [] t = "rc2"  -> <<"result", "caps2">>
      [] t = "rno"  -> <<"result", "nocaps">>
      [] t = "rcx"  -> <<"result", "capsx">>
      [] t = "rc1o" -> <<"result", "caps1o">>
      [] t = "rc2o" -> <<"result", "caps2o">>
      [] t = "err"  -> <<"error", "server error">>
      [] t = "mth"  -> <<"method", "window/logMessage">>
      [] t = "mhv"  -> <<"method", "textDocument/hover">>
      [] t = "min"  -> <<"method", "initialized">>
      [] t = "m0"   -> <<"method", "">>
      [] t = "prm"  -> <<"params", <<"p">>>>

MemberToks == {"v2", "v1", "id1", "id2", "id3", "id0", "id9", "ra", "rb", "rc0", "rc1", "rc2",
               "rno", "rcx", "rc1o", "rc2o", "err", "mth", "mhv", "min", "m0", "prm"}

\* The ASCII characters a text may hold.
AsciiChars == {"a", "p"}

\* The characters a text may hold: ASCII ones and one that is not.
WireChars == AsciiChars \cup {"U+00E9"}

\* Number of ':' characters in the text a token stands for.
ColonsIn(t) ==
    IF t = ":" THEN 1
    ELSE IF t = "err" THEN 3
    ELSE IF t = "prm<" THEN 1
    ELSE IF t \in MemberToks THEN 1
    ELSE 0

IdTok(i) ==
    CASE i = 0 -> "id0" [] i = 1 -> "id1" [] i = 2 -> "id2" [] i = 9 -> "id9" [] OTHER -> "id3"

\* ------------------------------------------------------------- frame codec (inbound)
\* StreamReader.at_eof(): feed_eof() was called and the buffer is empty.
AtEof(buf, eofFlag) == eofFlag /\ buf = <<>>

FirstNL(buf) ==
    IF \E i \in 1..Len(buf) : buf[i] = "NL"
    THEN CHOOSE i \in 1..Len(buf) : buf[i] = "NL" /\ \A j \in 1..(i - 1) : buf[j] # "NL"
    ELSE 0

\* StreamReader.readline(): up to and including the first line terminator; at
\* end-of-stream whatever is left (possibly nothing); otherwise it waits.
ReadLine(buf, eofFlag) ==
    LET i == FirstNL(buf) IN
    IF i > 0 THEN [kind |-> "line", line |-> SubSeq(buf, 1, i), rest |-> SubSeq(buf, i + 1, Len(buf))]
    ELSE IF eofFlag THEN [kind |-> "line", line |-> buf, rest |-> <<>>]
    ELSE [kind |-> "block"]

RECURSIVE RStrip(_)
\* str.rstrip(): trailing whitespace removed.
RStrip(s) ==
    IF s # <<>> /\ s[Len(s)] \in {"NL", "SP"} THEN RStrip(SubSeq(s, 1, Len(s) - 1)) ELSE s

RECURSIVE LStrip(_)
\* str.lstrip(): leading whitespace removed.
LStrip(s) ==
    IF s # <<>> /\ s[1] \in {"NL", "SP"} THEN LStrip(Tail(s)) ELSE s

RECURSIVE Colons(_)
Colons(s) == IF s = <<>> THEN 0 ELSE ColonsIn(s[1]) + Colons(Tail(s))

\* name, value = line.decode("ascii").rstrip().split(":"): the unpacking needs
\* exactly two parts, that is exactly one colon.  A colon inside a JSON member
\* splits that member's text: the name then ends with a part of it, and is no
\* header name.
SplitHeader(line) ==
    LET s == RStrip(line) IN
    IF Colons(s) # 1 THEN [ok |-> FALSE]
    ELSE LET i == CHOOSE k \in 1..Len(s) : ColonsIn(s[k]) = 1 IN
         [ok |-> TRUE,
          name |-> IF s[i] = ":" THEN SubSeq(s, 1, i - 1) ELSE SubSeq(s, 1, i),
          value |-> LStrip(SubSeq(s, i + 1, Len(s)))]

RECURSIVE ReadHeaders(_, _, _)
\* The header loop of _read_messages: lines are read until one is "\r\n".
\* headers is the dict built so far.
ReadHeaders(buf, eofFlag, headers) ==
    LET r == ReadLine(buf, eofFlag) IN
    IF r.kind = "block" THEN [kind |-> "block"]
    ELSE IF r.line = <<"NL">> THEN [kind |-> "headers", headers |-> headers, rest |-> r.rest]
    ELSE LET h == SplitHeader(r.line) IN
         IF ~h.ok THEN [kind |-> "crash", exc |-> "ValueError", rest |-> r.rest]
         ELSE ReadHeaders(r.rest, eofFlag,
                          [n \in DOMAIN headers \cup {h.name} |->
                              IF n = h.name THEN h.value ELSE headers[n]])

\* dict.get(name) as used in `if value := headers.get(name)`: the value when the
\* header is there and its value is not empty, else the empty text (falsy).
HeaderGet(headers, name) == IF name \in DOMAIN headers THEN headers[name] ELSE <<>>

IsDigits(v) == v # <<>> /\ \A i \in 1..Len(v) : IsDigit(v[i])

\* int(value) for a text of digits, with or without a minus sign before them;
\* any other text raises ValueError.
IsInt(v) == IsDigits(v) \/ (Len(v) >= 2 /\ v[1] = "-" /\ IsDigits(Tail(v)))

RECURSIVE Magnitude(_)
Magnitude(v) ==
    IF v = <<>> THEN 0 ELSE 10 * Magnitude(SubSeq(v, 1, Len(v) - 1)) + DigitVal(v[Len(v)])

IntOf(v) == IF v # <<>> /\ v[1] = "-" THEN 0 - Magnitude(Tail(v)) ELSE Magnitude(v)

\* bytes.decode("utf-8") as json.loads applies it to the body: the bytes 0xC3
\* 0xA9 make one character; either of them elsewhere is no UTF-8.
ValidUtf8(body) ==
    \A i \in 1..Len(body) :
        /\ body[i] = "0xC3" => (i < Len(body) /\ body[i + 1] = "0xA9")
        /\ body[i] = "0xA9" => (i > 1 /\ body[i - 1] = "0xC3")

RECURSIVE ParseText(_, _)
\* The characters of a JSON string up to its closing piece; `text` holds the
\* characters read so far.
ParseText(toks, text) ==
    IF toks = <<>> THEN [ok |-> FALSE]
    ELSE IF toks[1] = ">" THEN [ok |-> TRUE, text |-> text, rest |-> Tail(toks)]
    ELSE IF toks[1] \in AsciiChars THEN ParseText(Tail(toks), Append(text, toks[1]))
    ELSE IF toks[1] = "\\u00e9" THEN ParseText(Tail(toks), Append(text, "U+00E9"))
    ELSE IF Len(toks) >= 2 /\ toks[1] = "0xC3" /\ toks[2] = "0xA9"
    THEN ParseText(SubSeq(toks, 3, Len(toks)), Append(text, "U+00E9"))
    ELSE [ok |-> FALSE]

RECURSIVE ParseMembers(_, _)
\* The members <<key, value>> of a JSON object, in the order of the text.
ParseMembers(toks, members) ==
    IF toks = <<>> THEN [ok |-> TRUE, members |-> members]
    ELSE IF toks[1] \in MemberToks
    THEN ParseMembers(Tail(toks), Append(members, Member(toks[1])))
    ELSE IF toks[1] = "prm<"
    THEN LET t == ParseText(Tail(toks), <<>>) IN
         IF t.ok THEN ParseMembers(t.rest, Append(members, <<"params", t.text>>))
         ELSE [ok |-> FALSE]
    ELSE [ok |-> FALSE]

\* The object of a list of members <<key, value>>: of two members with one
\* key the later one stays.
Dict(members) ==
    LET keys == {members[i][1] : i \in 1..Len(members)}
        lastOf(k) == CHOOSE i \in 1..Len(members) :
                       /\ members[i][1] = k
                       /\ \A j \in (i + 1)..Len(members) : members[j][1] # k
    IN [k \in keys |-> members[lastOf(k)][2]]

\* json.loads(body): an object of members, an (empty) array, or an error:
\* UnicodeDecodeError for bytes that are no UTF-8, else JSONDecodeError.  The
\* array is the value [array |-> <<>>], which no object of the model equals.
JsonLoads(body) ==
    IF ~ValidUtf8(body) THEN [ok |-> FALSE, exc |-> "UnicodeDecodeError"]
    ELSE IF body = <<"[", "]">> THEN [ok |-> TRUE, object |-> FALSE, value |-> [array |-> <<>>]]
    ELSE IF Len(body) >= 2 /\ body[1] = "{" /\ body[Len(body)] = "}"
    THEN LET p == ParseMembers(SubSeq(body, 2, Len(body) - 1), <<>>) IN
         IF ~p.ok THEN [ok |-> FALSE, exc |-> "JSONDecodeError"]
         ELSE [ok |-> TRUE, object |-> TRUE, value |-> Dict(p.members)]
    ELSE [ok |-> FALSE, exc |-> "JSONDecodeError"]

\* The try around json.loads (lines 166-173): j is what json.loads gave for the
\* body, rest the buffer after the body.  Only JSONDecodeError is caught.
Loaded(j, rest) ==
    IF ~j.ok /\ j.exc # "JSONDecodeError"
    THEN [kind |-> "crash", exc |-> j.exc, rest |-> rest]
    ELSE IF ~j.ok
    THEN [kind |-> "error", code |-> -32700, message |-> "Could not deserialize JSON",
          data |-> "e.msg", rest |-> rest]
    ELSE [kind |-> "message", object |-> j.object, msg |-> j.value, rest |-> rest]

\* readexactly(n) and what follows it (lines 165-173); readexactly raises
\* ValueError for n < 0.
ReadBody(n, rest, eofFlag) ==
    IF n < 0 THEN [kind |-> "crash", exc |-> "ValueError", rest |-> rest]
    ELSE IF Len(rest) < n
    THEN IF eofFlag THEN [kind |-> "crash", exc |-> "IncompleteReadError", rest |-> <<>>]
         ELSE [kind |-> "block"]
    ELSE Loaded(JsonLoads(SubSeq(rest, 1, n)), SubSeq(rest, n + 1, Len(rest)))

\* The header checks (lines 154-178): ctype and clen are what headers.get gave
\* for Content-Type and Content-Length, rest is the buffer after the headers.
ReadContent(ctype, clen, rest, eofFlag) ==
    IF ctype # <<>> /\ ~(\E i \in 1..Len(ctype) : ctype[i] = "utf8")
    THEN [kind |-> "error", code |-> -32600, message |-> "Unexpected Content-Type header",
          data |-> "", rest |-> rest]
    ELSE IF clen # <<>>
    THEN IF ~IsInt(clen) THEN [kind |-> "crash", exc |-> "ValueError", rest |-> rest]
         ELSE ReadBody(IntOf(clen), rest, eofFlag)
    ELSE [kind |-> "error", code |-> -32600, message |-> "Missing Content-Length header",
          data |-> "", rest |-> rest]

\* One iteration of the `while not at_eof()` loop of _read_messages, from the
\* header loop on: what it consumes and how it ends.
\*   block   : a read waits for bytes that have not arrived
\*   crash   : an exception leaves the generator (and the read loop)
\*   error   : send_error(code, message, data) and back to the loop's test
\*   message : a decoded message is yielded
Decode(buf, eofFlag) ==
    LET h == ReadHeaders(buf, eofFlag, <<>>) IN
    IF h.kind # "headers" THEN h
    ELSE ReadContent(HeaderGet(h.headers, <<"CT">>), HeaderGet(h.headers, <<"CL">>),
                     h.rest, eofFlag)

\* ------------------------------------------------------------- frames the server may write
HeaderLine(name, value) == <<name, ":", "SP">> \o value \o <<"NL">>

\* A well-formed frame: Content-Length, a blank line, the body.
Framed(body) == HeaderLine("CL", Decimal(Len(body))) \o <<"NL">> \o body

ResultFrame(i, r) == Framed(<<"{", "v2", IdTok(i), r, "}">>)

ErrorFrame(i) == Framed(<<"{", "v2", IdTok(i), "err", "}">>)

EmptyFrame(i) == Framed(<<"{", "v2", IdTok(i), "}">>)

NotificationFrame == Framed(<<"{", "v2", "mth", "prm", "}">>)

BadJsonFrame == Framed(<<"{", "v2">>)

NoLengthFrame == HeaderLine("CT", <<"utf8">>) \o <<"NL">>

\* A notification with jsonrpc "1.0".
OldVersionFrame == Framed(<<"{", "v1", "mth", "}">>)

\* A response to the first request with jsonrpc "1.0", and one without a
\* jsonrpc member; a notification without a jsonrpc member.
OldVersionResultFrame == Framed(<<"{", "v1", IdTok(1), "ra", "}">>)

NoVersionResultFrame == Framed(<<"{", IdTok(1), "ra", "}">>)

NoVersionNotificationFrame == Framed(<<"{", "mth", "}">>)

\* A request of the server to the client: a method and the id i.
RequestFrame(i) == Framed(<<"{", "v2", IdTok(i), "mhv", "prm", "}">>)

\* A body that is a JSON array.
ArrayFrame == Framed(<<"[", "]">>)

\* An object with neither id nor method.
BareFrame == Framed(<<"{", "v2", "}">>)

\* A notification without params.
PlainNotificationFrame == Framed(<<"{", "v2", "mth", "}">>)

\* A notification with a Content-Type that names utf-8, whose params hold a
\* character that is not ASCII, in UTF-8.
Utf8TextFrame ==
    HeaderLine("CT", <<"utf8">>)
        \o Framed(<<"{", "v2", "mth", "prm<", "0xC3", "0xA9", ">", "}">>)

\* A notification whose params hold the same character as an escape; the body
\* is ten bytes long.
EscapedTextFrame == Framed(<<"{", "v2", "mth", "prm<", "a", "\\u00e9", "a", "p", ">", "}">>)

\* A notification under a header the reader has no use for, whose value is a
\* text with a colon in it (`X-Time: a:a`).
ExtraHeaderFrame ==
    HeaderLine("XT", <<"a", ":", "a">>) \o Framed(<<"{", "v2", "mth", "}">>)

\* Frames whose Content-Length is no number (`a`), or a negative one (`-4`).
BadLengthFrame == HeaderLine("CL", <<"a">>) \o <<"NL">> \o <<"{", "v2", "mth", "}">>

NegativeLengthFrame ==
    HeaderLine("CL", <<"-", DigitTok(4)>>) \o <<"NL">> \o <<"{", "v2", "mth", "}">>

WrongTypeFrame ==
    HeaderLine("CL", <<DigitTok(4)>>) \o HeaderLine("CT", <<"latin">>) \o <<"NL">>
        \o <<"{", "v2", "mth", "}">>

\* Every frame the server of the model may write, by name.
ServerFrame(name) ==
    CASE name = "result1a" -> ResultFrame(1, "ra")
      [] name = "result1b" -> ResultFrame(1, "rb")
      [] name = "result2a" -> ResultFrame(2, "ra")
      [] name = "result3a" -> ResultFrame(3, "ra")
      [] name = "error1" -> ErrorFrame(1)
      [] name = "empty1" -> EmptyFrame(1)
      [] name = "notification" -> NotificationFrame
      [] name = "badjson" -> BadJsonFrame
      [] name = "nolength" -> NoLengthFrame
      [] name = "wrongtype" -> WrongTypeFrame
      [] name = "oldversion" -> OldVersionFrame
      [] name = "oldresult1" -> OldVersionResultFrame
      [] name = "noversion1" -> NoVersionResultFrame
      [] name = "noversion" -> NoVersionNotificationFrame
      [] name = "array" -> ArrayFrame
      [] name = "bare" -> BareFrame
      [] name = "plain" -> PlainNotificationFrame
      [] name = "utf8text" -> Utf8TextFrame
      [] name = "escapedtext" -> EscapedTextFrame
      [] name = "extraheader" -> ExtraHeaderFrame
      [] name = "badlength" -> BadLengthFrame
      [] name = "neglength" -> NegativeLengthFrame
      [] name = "result0a" -> ResultFrame(0, "ra")
      [] name = "result9a" -> ResultFrame(9, "ra")
      [] name = "request0" -> RequestFrame(0)
      [] name = "request1" -> RequestFrame(1)
      [] name = "request9" -> RequestFrame(9)
      [] name = "caps0" -> ResultFrame(1, "rc0")
      [] name = "caps1" -> ResultFrame(1, "rc1")
      [] name = "caps2" -> ResultFrame(1, "rc2")
      [] name = "nocaps" -> ResultFrame(1, "rno")
      [] name = "capsx" -> ResultFrame(1, "rcx")
      [] name = "caps1o" -> ResultFrame(1, "rc1o")
      [] name = "caps2o" -> ResultFrame(1, "rc2o")

\* Responses of every kind to the ids the callers of the model can get.
RpcFrames == {"result1a", "result1b", "result2a", "error1", "empty1"}

\* Answers to the first request (initialize results with and without
\* capabilities, an error) and to the second.
SessionFrames == {"caps0", "caps1", "caps2", "capsx", "caps1o", "caps2o", "nocaps", "error1",
                  "result2a"}

\* Well-formed and malformed frames.
CodecFrames == {"result1a", "notification", "badjson", "nolength", "wrongtype",
                "array", "bare", "plain", "utf8text", "escapedtext", "extraheader",
                "badlength", "neglength"}

\* What the server sends while callers write: a response, a frame the reader
\* answers with an error from _read_messages, and one it answers from
\* _read_loop.
WireFrames == {"result1a", "badjson", "oldversion"}

\* Messages whose jsonrpc member is "1.0" or missing, with the id of the
\* first request or without an id, and a response the loop accepts.
VersionFrames == {"oldversion", "oldresult1", "noversion1", "noversion", "result1a"}

\* Messages with an id: a response to the first request, responses and
\* requests of the server with an id the client has not issued (9, and 0, the
\* first id of a peer that counts from 0), and a request of the server with
\* the id of the first request.
StrayFrames == {"result1a", "result0a", "result9a", "request0", "request1", "request9"}

\* Notifications the window's handler is given, with and without params, and
\* responses to the first two requests.
HandlerFrames == {"notification", "plain", "result1a", "result2a"}

\* ------------------------------------------------------------- JsonRpcDispatcher
NoOutcome == [kind |-> "none", value |-> ""]

PendingFuture == [state |-> "pending", value |-> "", by |-> 0]

NoCall == [op |-> "", uri |-> "", status |-> ""]

\* No provider: the value None of PyroseWindow.completion_provider and
\* hover_provider.
NoProvider == [task |-> 0, client |-> 0]

\* PyroseWindow.__init__ (lines 39-41): no client, no providers; nothing is
\* registered in the source view, no start_lsp task exists, no client was
\* created.
NoWindow ==
    [lsp_client |-> 0, completion_provider |-> NoProvider, hover_provider |-> NoProvider,
     completion |-> {}, hover |-> {}, language |-> "", tasks |-> <<>>, clients |-> <<>>,
     changes |-> 0, selections |-> 0]

Init ==
    /\ callback_id = 1
    /\ callbacks = <<>>
    /\ futures = [c \in Callers |-> [state |-> "none", value |-> "", by |-> 0]]
    /\ read_loop_task = "none"
    /\ started = FALSE
    /\ on_notification = 0
    /\ inbuf = <<>>
    /\ eof = FALSE
    /\ written = <<>>
    /\ caller = [c \in Callers |-> [pc |-> "idle", kind |-> "", id |-> 0, fut |-> 0, outcome |-> NoOutcome]]
    /\ notified = <<>>
    /\ inlog = <<>>
    /\ sent = <<>>
    /\ stops = 0
    /\ server_capabilities = <<>>
    /\ documents = <<>>
    /\ work_progress = {}
    /\ exiting = 0
    /\ last = NoCall
    /\ ops = 0
    /\ window = NoWindow
    /\ on_close = 0
    /\ closes = 0

\* dict without one key (del d[k]).
Without(d, k) == [x \in DOMAIN d \ {k} |-> d[x]]

\* dict with d[k] = v.
With(d, k, v) == [x \in DOMAIN d \cup {k} |-> IF x = k THEN v ELSE d[x]]

\* The payload send() builds.
RequestPayload(id, method, params) ==
    [jsonrpc |-> "2.0", id |-> id, method |-> method, params |-> params]

\* The payload send_error() builds: {code: code, message: message}, whose keys
\* are the VALUES of code and message (json.dumps writes the integer key as text).
ErrorPayload(code, message, data) ==
    LET payload == (ToString(code) :> code) @@ (message :> message) IN
    IF data # "" THEN With(payload, "data", data) ELSE payload

\* The message send_notification() builds;
\* params is <<>> for None and <<p>> for the value p.
NotificationPayload(method, params) ==
    IF params # <<>> THEN [jsonrpc |-> "2.0", method |-> method, params |-> params[1]]
    ELSE [jsonrpc |-> "2.0", method |-> method]

\* The keys of a message in the order in which its members are written.
KeyOrder == <<"jsonrpc", "id", "method", "params", "result", "error">>

\* json.dumps of a character of a str with ensure_ascii unset: every character
\* is written as it is.
EscapeNothing(ch) == ch

\* json.dumps of a character of a str (ensure_ascii is set by default): a
\* character that is not ASCII is written as its \u escape.
EscapeChar(ch) == IF ch \in AsciiChars THEN ch ELSE "\\u00e9"

\* json.dumps of the member params, whose value is a text.
DumpsText(text) == <<"prm<">> \o [i \in 1..Len(text) |-> EscapeChar(text[i])] \o <<">">>

\* json.dumps of one member: the piece of text that stands for it.
DumpsMember(k, v) ==
    IF k = "params" THEN DumpsText(v)
    ELSE <<CHOOSE t \in MemberToks : Member(t)[1] = k /\ Member(t)[2] = v>>

RECURSIVE DumpsMembers(_, _)
DumpsMembers(message, keys) ==
    IF keys = <<>> THEN <<>>
    ELSE (IF keys[1] \in DOMAIN message THEN DumpsMember(keys[1], message[keys[1]]) ELSE <<>>)
         \o DumpsMembers(message, Tail(keys))

RECURSIVE DumpsKeys(_)
\* The members of a send_error payload, one ASCII piece per key.
DumpsKeys(keys) ==
    IF keys = {} THEN <<>>
    ELSE LET k == CHOOSE x \in keys : TRUE IN <<k>> \o DumpsKeys(keys \ {k})

\* _send, line 112: content = json.dumps(message), as the characters of the
\* text.  The messages are requests and notifications whose params are a text,
\* decoded messages, and send_error payloads.
JsonDumps(message) ==
    IF "array" \in DOMAIN message THEN <<"[", "]">>
    ELSE <<"{">> \o (IF "jsonrpc" \in DOMAIN message THEN DumpsMembers(message, KeyOrder)
                    ELSE DumpsKeys(DOMAIN message)) \o <<"}">>

\* str.encode(): the UTF-8 bytes of a character.
Utf8(ch) == IF ch = "U+00E9" THEN <<"0xC3", "0xA9">> ELSE <<ch>>

RECURSIVE StrEncode(_)
StrEncode(text) == IF text = <<>> THEN <<>> ELSE Utf8(text[1]) \o StrEncode(Tail(text))

\* _send, line 113: data = f"Content-Length: {len(content)}\r\n\r\n{content}"
FrameText(message) ==
    LET content == JsonDumps(message) IN
    <<"CL", ":", "SP">> \o Decimal(Len(content)) \o <<"NL", "NL">> \o content

\* _send, line 114: data.encode(), the bytes of one write() call.
Encode(message) == StrEncode(FrameText(message))

\* The frame is put in front of what was written before.
WriteInFront(w, message) == <<message>> \o w

\* _send(message): the frame is handed to the writer in one write() call, after
\* what earlier calls have written.
Write(w, message) == Append(w, message)

\* start(): the read loop is created as a task; it runs from its first step on.
Start ==
    /\ ~started
    /\ started' = TRUE
    /\ read_loop_task' = "created"
    /\ UNCHANGED <<callback_id, callbacks, futures, on_notification, inbuf, eof, written,
                   caller, notified, inlog, sent, stops, sessVars>>

\* start() called again once stop() has cancelled the read loop: a new read
\* loop is created on the same reader.
StartAgain ==
    /\ started
    /\ read_loop_task = "cancelled"
    /\ read_loop_task' = "created"
    /\ UNCHANGED <<callback_id, callbacks, futures, started, on_notification, inbuf, eof,
                   written, caller, notified, inlog, sent, stops, sessVars>>

\* Task.cancel(): a task that has not finished is cancelled.
CancelTask(t) == IF t \in {"created", "running"} THEN "cancelled" ELSE t

\* Future.cancel(): a future that is not done becomes cancelled.
CancelFuture(f) == IF f.state = "pending" THEN [f EXCEPT !.state = "cancelled"] ELSE f

\* stop()
StopDispatcher ==
    /\ read_loop_task' = CancelTask(read_loop_task)
    /\ futures' = [c \in Callers |->
                      IF \E i \in DOMAIN callbacks : callbacks[i] = c
                      THEN CancelFuture(futures[c]) ELSE futures[c]]
    /\ callback_id' = 1
    /\ callbacks' = <<>>

Stop ==
    /\ stops < MaxStops
    /\ stops' = stops + 1
    /\ StopDispatcher
    /\ UNCHANGED <<started, on_notification, inbuf, eof, written, caller, notified, inlog, sent, sessVars>>

\* What a caller gets from a future that is done: Future.result().
FutureOutcome(f) ==
    CASE f.state = "result" -> [kind |-> "result", value |-> f.value]
      [] f.state = "exception" -> [kind |-> "ValueError", value |-> f.value]
      [] f.state = "cancelled" -> [kind |-> "CancelledError", value |-> ""]

\* send(), lines 63-72: the id is taken, the future registered, the request
\* written; the caller is then in `await self._writer.drain()`.
SendRequest(c, kind, method, params) ==
    /\ callback_id' = callback_id + 1
    /\ callbacks' = With(callbacks, callback_id, c)
    /\ futures' = [futures EXCEPT ![c] = PendingFuture]
    /\ written' = Write(written, RequestPayload(callback_id, method, params))
    /\ caller' = [caller EXCEPT ![c].pc = "drain", ![c].kind = kind, ![c].id = callback_id]

\* Callers are numbered in the order of their calls: c is the next to call.
NextCaller(c) == caller[c].pc = "idle" /\ \A d \in Callers : d < c => caller[d].pc # "idle"

\* A direct call of JsonRpcDispatcher.send(method, params).
Send(c) ==
    /\ NextCaller(c)
    /\ \E method \in {"", "textDocument/hover"} :
          IF method = ""
          THEN /\ caller' = [caller EXCEPT ![c].pc = "done", ![c].kind = "send",
                                           ![c].outcome = [kind |-> "ValueError",
                                                           value |-> "Method must be given a value"]]
               /\ UNCHANGED <<callback_id, callbacks, futures, written>>
          ELSE SendRequest(c, "send", method, <<"p">>)
    /\ UNCHANGED <<read_loop_task, started, on_notification, inbuf, eof, notified, inlog,
                   sent, stops, sessVars>>

\* send(), lines 74-77 once the awaited future f is done: the result is taken
\* (or the exception raised), then `del self._callbacks[callback_id]`.
Finish(c, f, cbs) ==
    LET o == FutureOutcome(f) IN
    IF o.kind # "result" THEN [outcome |-> o, callbacks |-> cbs]
    ELSE IF caller[c].id \notin DOMAIN cbs
    THEN [outcome |-> [kind |-> "KeyError", value |-> ""], callbacks |-> cbs]
    ELSE [outcome |-> o, callbacks |-> Without(cbs, caller[c].id)]

\* The initialize results that have a "capabilities" member.
CapsResults == {"caps0", "caps1", "caps2", "capsx", "caps1o", "caps2o"}

\* The value of textDocumentSync in its options-object form
\* {"openClose": true, "change": change}: an object, which equals no
\* TextDocumentSyncKind.  The objects are the values from 10 on.
SyncOptions(change) == 10 + change

\* The capabilities object of an initialize result: a sync kind (None, Full,
\* Incremental) as a number or inside an options object, or capabilities that
\* name no textDocumentSync.
CapsOf(data) ==
    CASE data = "caps0" -> [textDocumentSync |-> 0]
      [] data = "caps1" -> [textDocumentSync |-> 1]
      [] data = "caps2" -> [textDocumentSync |-> 2]
      [] data = "capsx" -> [hoverProvider |-> 1]
      [] data = "caps1o" -> [textDocumentSync |-> SyncOptions(1)]
      [] data = "caps2o" -> [textDocumentSync |-> SyncOptions(2)]

\* A result without capabilities is taken for one with empty capabilities.
CapabilitiesOrEmpty(data) ==
    IF data \in CapsResults THEN <<CapsOf(data)>> ELSE <<[hoverProvider |-> 1]>>

\* initialize, line 216: data["capabilities"], as <<capabilities>>; <<>> when the
\* subscript raises.
Capabilities(data) == IF data \in CapsResults THEN <<CapsOf(data)>> ELSE <<>>

\* What follows `await self._client.send(...)` in the caller of kind
\* caller[c].kind, given the future f it awaited (0: none) and how send() ended:
\*   send       : nothing (a direct caller of the dispatcher)
\*   request    : LspClient._send, lines 305-306: the token is deleted, the result returned
\*   initialize : LspClient._send, then LspClient.initialize, lines 216-217
AfterSend(c, f, o) ==
    IF caller[c].kind = "send" \/ o.kind # "result"
    THEN /\ caller' = [caller EXCEPT ![c].pc = "done", ![c].fut = f, ![c].outcome = o]
         /\ UNCHANGED <<written, server_capabilities, work_progress>>
    ELSE /\ work_progress' = work_progress \ {c}
         /\ IF caller[c].kind = "request"
            THEN /\ caller' = [caller EXCEPT ![c].pc = "done", ![c].fut = f, ![c].outcome = o]
                 /\ UNCHANGED <<written, server_capabilities>>
            ELSE IF Capabilities(o.value) # <<>>
            THEN /\ server_capabilities' = Capabilities(o.value)
                 /\ written' = Write(written, NotificationPayload("initialized", <<"{}">>))
                 /\ caller' = [caller EXCEPT ![c].pc = "done", ![c].fut = f,
                                             ![c].outcome = [kind |-> "returned", value |-> ""]]
            ELSE /\ caller' = [caller EXCEPT ![c].pc = "done", ![c].fut = f,
                                  ![c].outcome = [kind |-> IF o.value = "nocaps" THEN "KeyError"
                                                           ELSE "TypeError",
                                                  value |-> "capabilities"]]
                 /\ UNCHANGED <<written, server_capabilities>>

\* send(), line 74, once _send has returned: `self._callbacks[callback_id]` is
\* looked up (KeyError when it is gone) and awaited; a future that is already
\* done does not suspend.
AfterDrain(c) ==
    IF caller[c].id \notin DOMAIN callbacks
    THEN /\ AfterSend(c, 0, [kind |-> "KeyError", value |-> ""])
         /\ UNCHANGED callbacks
    ELSE LET f == callbacks[caller[c].id] IN
         IF futures[f].state = "pending"
         THEN /\ caller' = [caller EXCEPT ![c].pc = "await", ![c].fut = f]
              /\ UNCHANGED <<callbacks, written, server_capabilities, work_progress>>
         ELSE LET r == Finish(c, futures[f], callbacks) IN
              /\ AfterSend(c, f, r.outcome)
              /\ callbacks' = r.callbacks

\* The drain returns.
DrainDone(c) ==
    /\ caller[c].pc = "drain"
    /\ AfterDrain(c)
    /\ UNCHANGED <<callback_id, futures, read_loop_task, started, on_notification, inbuf, eof,
                   notified, inlog, sent, stops, exiting, docVars, window, on_close, closes>>

\* on_close() is called twice.
OnCloseTwice(callback) == IF callback # 0 THEN 2 ELSE 0

\* _send, lines 117-119: the calls of on_close a ConnectionResetError makes.
OnCloseCalls(callback) == IF callback # 0 THEN 1 ELSE 0

\* The drain raises ConnectionResetError: _send catches it, calls on_close if
\* one is registered and returns (lines 115-120); send() goes on at line 74.
DrainReset(c) ==
    /\ caller[c].pc = "drain"
    /\ closes' = closes + OnCloseCalls(on_close)
    /\ AfterDrain(c)
    /\ UNCHANGED <<callback_id, futures, read_loop_task, started, on_notification, inbuf, eof,
                   notified, inlog, sent, stops, exiting, docVars, window, on_close>>

\* on_close is assigned: a callback, or None (0).
SetOnClose ==
    /\ \E callback \in {0, 1} :
          /\ callback # on_close
          /\ on_close' = callback
    /\ UNCHANGED <<callback_id, callbacks, futures, read_loop_task, started, on_notification,
                   inbuf, eof, written, caller, notified, inlog, sent, stops,
                   server_capabilities, documents, work_progress, exiting, last, ops, window,
                   closes>>

\* The caller suspended in `await self._callbacks[callback_id]` is woken up.
Resume(c) ==
    /\ caller[c].pc = "await"
    /\ futures[caller[c].fut].state # "pending"
    /\ LET r == Finish(c, futures[caller[c].fut], callbacks) IN
       /\ AfterSend(c, caller[c].fut, r.outcome)
       /\ callbacks' = r.callbacks
    /\ UNCHANGED <<callback_id, futures, read_loop_task, started, on_notification, inbuf, eof,
                   notified, inlog, sent, stops, exiting, docVars, window, on_close, closes>>

\* A dispatcher that answers its callers in the order they sent: the response is
\* given to the oldest pending call, whatever its id.
FutureForOldest(cbs, id) == cbs[CHOOSE i \in DOMAIN cbs : \A j \in DOMAIN cbs : i <= j]

\* line 133: future = self._callbacks[callback_id]
FutureFor(cbs, id) == cbs[id]

\* The handlers a client may register.
Handlers == {1, 2}

\* line 142: self.on_notification(message["method"], message.get("params")); the
\* params are <<>> for None and <<p>> for the value p.
Forwarded(handler, m) ==
    [handler |-> handler, method |-> m["method"],
     params |-> IF "params" \in DOMAIN m THEN <<m["params"]>> ELSE <<>>]

\* PyroseWindow.on_lsp_notification as a handler.
WindowHandler == 3

\* The handler raises while it handles the message.  on_lsp_notification
\* (window.py lines 271-296) evaluates params["type"] for window/showMessage
\* and window/logMessage: TypeError when the message has no params (None).
HandlerRaises(handler, m) ==
    /\ handler = WindowHandler
    /\ m["method"] \in {"window/showMessage", "window/logMessage"}
    /\ "params" \notin DOMAIN m

\* The state of the read loop's task once an iteration ends normally: the
\* generator tests `while not self._reader.at_eof()` and either finishes or is
\* back in the header loop's readline().
LoopTest(buf, eofFlag) == IF AtEof(buf, eofFlag) THEN "done" ELSE "running"

Failed(exc) == [task |-> exc, futures |-> futures, written |-> written, notified |-> notified]

\* _read_loop's body for one yielded message (lines 124-142).  rest is the
\* buffer left after the message, idx the message's place in inlog.
LoopBody(isObject, m, rest, idx) ==
    LET continue == [task |-> LoopTest(rest, eof), futures |-> futures, written |-> written,
                     notified |-> notified]
    IN
    IF ~isObject THEN Failed("AttributeError")
    ELSE IF "jsonrpc" \notin DOMAIN m \/ m["jsonrpc"] # "2.0"
    THEN [continue EXCEPT !.written =
              Write(written, ErrorPayload(-32600, "Invalid JSON-RPC version", ""))]
    ELSE IF "id" \in DOMAIN m /\ m["id"] # 0
    THEN IF m["id"] \notin DOMAIN callbacks THEN continue
         ELSE LET f == FutureFor(callbacks, m["id"]) IN
              IF futures[f].state # "pending" THEN Failed("InvalidStateError")
              ELSE IF "result" \in DOMAIN m
              THEN [continue EXCEPT !.futures =
                       [futures EXCEPT ![f] = [state |-> "result", value |-> m["result"], by |-> idx]]]
              ELSE IF "error" \in DOMAIN m
              THEN [continue EXCEPT !.futures =
                       [futures EXCEPT ![f] = [state |-> "exception", value |-> m["error"], by |-> idx]]]
              ELSE [continue EXCEPT !.futures =
                       [futures EXCEPT ![f] = [state |-> "exception", value |-> "Invalid message",
                                               by |-> idx]]]
    ELSE IF on_notification = 0 THEN continue
    ELSE IF "method" \notin DOMAIN m THEN Failed("KeyError")
    ELSE IF HandlerRaises(on_notification, m)
    THEN [Failed("TypeError") EXCEPT !.notified = Append(notified, Forwarded(on_notification, m))]
    ELSE [continue EXCEPT !.notified = Append(notified, Forwarded(on_notification, m))]

\* The read loop's task runs for the first time: the generator's first test of
\* at_eof().
ReadLoopBegin ==
    /\ read_loop_task = "created"
    /\ read_loop_task' = LoopTest(inbuf, eof)
    /\ UNCHANGED <<callback_id, callbacks, futures, started, on_notification, inbuf, eof,
                   written, caller, notified, inlog, sent, stops, sessVars>>

\* The reader has the bytes (or the end of stream) its next reads need.
CanRead == (inbuf # <<>> \/ eof) /\ Decode(inbuf, eof).kind # "block"

\* One iteration of _read_messages and, when it yields, of _read_loop.  It is
\* taken when the bytes it reads have all arrived (or the stream has ended).
ReadStep ==
    /\ read_loop_task = "running"
    /\ CanRead
    /\ \E d \in {Decode(inbuf, eof)} :
       /\ inbuf' = d.rest
       /\ IF d.kind = "crash"
          THEN /\ read_loop_task' = d.exc
               /\ UNCHANGED <<futures, written, notified, inlog>>
          ELSE IF d.kind = "error"
          THEN /\ written' = Write(written, ErrorPayload(d.code, d.message, d.data))
               /\ read_loop_task' = LoopTest(d.rest, eof)
               /\ UNCHANGED <<futures, notified, inlog>>
          ELSE \E r \in {LoopBody(d.object, d.msg, d.rest, Len(inlog) + 1)} :
               /\ inlog' = Append(inlog, d.msg)
               /\ read_loop_task' = r.task
               /\ futures' = r.futures
               /\ written' = r.written
               /\ notified' = r.notified
    /\ UNCHANGED <<callback_id, callbacks, started, on_notification, eof, caller, sent, stops, sessVars>>

\* The methods and texts send_notification is called with.
NotifyMethods == {"", "initialized"}

WireTexts == UNION {[1..k -> WireChars] : k \in 0..MaxTextLen}

\* Number of notifications among the frames written.
NotesWritten ==
    Cardinality({i \in 1..Len(written) :
                    "jsonrpc" \in DOMAIN written[i] /\ "id" \notin DOMAIN written[i]})

\* A direct call of JsonRpcDispatcher.send_notification(method, params): the
\* message is built and written (lines 106-114); the caller is then in the drain.
SendNotification ==
    /\ NotesWritten < MaxNotes
    /\ \E method \in NotifyMethods, params \in {<<>>} \cup {<<t>> : t \in WireTexts} :
          written' = Write(written, NotificationPayload(method, params))
    /\ UNCHANGED <<callback_id, callbacks, futures, read_loop_task, started, on_notification,
                   inbuf, eof, caller, notified, inlog, sent, stops, sessVars>>

\* LspClient.set_notification_handler(callback): a handler, or None (0).
SetNotificationHandler ==
    /\ \E callback \in Handlers \cup {0} :
          /\ callback # on_notification
          /\ on_notification' = callback
    /\ UNCHANGED <<callback_id, callbacks, futures, read_loop_task, started, inbuf, eof,
                   written, caller, notified, inlog, sent, stops, sessVars>>

\* LspClient.set_notification_handler(self.on_lsp_notification), as start_lsp
\* calls it (window.py line 196).
SetWindowHandler ==
    /\ on_notification # WindowHandler
    /\ on_notification' = WindowHandler
    /\ UNCHANGED <<callback_id, callbacks, futures, read_loop_task, started, inbuf, eof,
                   written, caller, notified, inlog, sent, stops, sessVars>>

\* ------------------------------------------------------------- the server
\* The server writes one whole frame.  A frame is handed over when the read
\* loop waits for bytes: what the reader does depends on the bytes only, not on
\* when they arrived, and bytes that arrive for a loop that has ended are
\* never read.
ServerWrite(frames) ==
    /\ Len(sent) < MaxFrames
    /\ ~eof
    /\ read_loop_task = "running"
    /\ ~CanRead
    /\ \E name \in frames :
          /\ inbuf' = inbuf \o ServerFrame(name)
          /\ sent' = Append(sent, name)
    /\ UNCHANGED <<callback_id, callbacks, futures, read_loop_task, started, on_notification,
                   eof, written, caller, notified, inlog, stops, sessVars>>

\* The server writes two frames before the reader runs again.
ServerWriteTwo(frames) ==
    /\ Len(sent) + 2 <= MaxFrames
    /\ ~eof
    /\ read_loop_task = "running"
    /\ ~CanRead
    /\ \E first \in frames, second \in frames :
          /\ inbuf' = inbuf \o ServerFrame(first) \o ServerFrame(second)
          /\ sent' = sent \o <<first, second>>
    /\ UNCHANGED <<callback_id, callbacks, futures, read_loop_task, started, on_notification,
                   eof, written, caller, notified, inlog, stops, sessVars>>

\* The requests among the frames written, in order.
RequestsWritten == SelectSeq(written, LAMBDA w : "id" \in DOMAIN w /\ "method" \in DOMAIN w)

\* A server that answers every request it gets, once, in the order received,
\* with a result under the request's id.  The stream outlives stop(): what
\* is written while no read loop runs is read by the next one.
ServerAnswer ==
    /\ Len(sent) < MaxFrames
    /\ Len(sent) < Len(RequestsWritten)
    /\ inbuf = <<>>
    /\ \E id \in {RequestsWritten[Len(sent) + 1]["id"]} :
          /\ inbuf' = ResultFrame(id, "ra")
          /\ sent' = Append(sent, CASE id = 1 -> "result1a" [] id = 2 -> "result2a"
                                     [] OTHER -> "result3a")
    /\ UNCHANGED <<callback_id, callbacks, futures, read_loop_task, started, on_notification,
                   eof, written, caller, notified, inlog, stops, sessVars>>

\* The server closes its output: feed_eof().  It may do so while frames it
\* wrote are still unread, or while the reader waits in readline().
ServerClose ==
    /\ ~eof
    /\ eof' = TRUE
    /\ UNCHANGED <<callback_id, callbacks, futures, read_loop_task, started, on_notification,
                   inbuf, written, caller, notified, inlog, sent, stops, sessVars>>

\* ------------------------------------------------------------- LspClient
Uris == {"file:///a.py", "file:///b.py"}

Chars == {"a", "\n"}

\* A text is a sequence of characters.
Texts == UNION {[1..k -> Chars] : k \in 0..MaxTextLen}

HasNewline(t) == \E i \in 1..Len(t) : t[i] = "\n"

FirstNewline(t) == CHOOSE i \in 1..Len(t) : t[i] = "\n" /\ \A j \in 1..(i - 1) : t[j] # "\n"

RECURSIVE Split(_)
\* The pieces of t between its line terminators (one more than terminators).
Split(t) ==
    IF ~HasNewline(t) THEN <<t>>
    ELSE LET i == FirstNewline(t) IN <<SubSeq(t, 1, i - 1)>> \o Split(SubSeq(t, i + 1, Len(t)))

\* str.splitlines(): the lines of t; a terminator at the end opens no last
\* empty line, and the empty text has no line.
SplitLines(t) ==
    LET p == Split(t) IN IF p[Len(p)] = <<>> THEN SubSeq(p, 1, Len(p) - 1) ELSE p

\* The range get_lazy_cheat_diff gives for a text: from 0:0 to
\* len(lines) : len(lines[-1]).
WholeRange(t) ==
    LET lines == SplitLines(t) IN
    [start |-> [line |-> 0, character |-> 0],
     end |-> [line |-> Len(lines),
              character |-> IF lines # <<>> THEN Len(lines[Len(lines)]) ELSE 0]]

\* get_lazy_cheat_diff(string_old, string_new)
get_lazy_cheat_diff(string_old, string_new) ==
    (IF string_old # <<>> THEN <<[range |-> WholeRange(string_old), text |-> <<>>]>> ELSE <<>>)
    \o (IF string_new # <<>> THEN <<[range |-> WholeRange(string_new), text |-> string_new]>>
        ELSE <<>>)

\* Every sync kind other than None is served with the lazy diff.
ContentChangesAlwaysDiff(kind, old, text) ==
    IF kind = 0 THEN <<>> ELSE get_lazy_cheat_diff(old, text)

\* update_document, lines 270-280: the content changes for the sync kind.
ContentChanges(kind, old, text) ==
    CASE kind = 0 -> <<>>
      [] kind = 1 -> <<[text |-> text]>>
      [] kind = 2 -> get_lazy_cheat_diff(old, text)
      [] OTHER -> <<>>

\* open_document finds no document it tracks.
AlreadyOpenNever(uri) == FALSE

\* open_document, line 229: uri in self._documents
AlreadyOpen(uri) == uri \in DOMAIN documents

\* open_document records the document at version 1.
NewDocumentOne(text) == [text |-> text, version |-> 1]

\* open_document, line 231: the record of a document just opened.
NewDocument(text) == [text |-> text, version |-> 0]

\* open_document(uri, text)
OpenDocument(uri, text) ==
    /\ ops < MaxDocOps
    /\ ops' = ops + 1
    /\ IF AlreadyOpen(uri)
       THEN /\ last' = [op |-> "open", uri |-> uri, status |-> "ValueError"]
            /\ UNCHANGED <<documents, written>>
       ELSE /\ documents' = With(documents, uri, NewDocument(text))
            /\ written' = Write(written, NotificationPayload("textDocument/didOpen",
                               <<[textDocument |-> [uri |-> uri, languageId |-> "python",
                                                   version |-> 0, text |-> text]]>>))
            /\ last' = [op |-> "open", uri |-> uri, status |-> "ok"]
    /\ UNCHANGED docFrame

\* close_document(uri)
CloseDocument(uri) ==
    /\ ops < MaxDocOps
    /\ ops' = ops + 1
    /\ IF uri \notin DOMAIN documents
       THEN /\ last' = [op |-> "close", uri |-> uri, status |-> "ValueError"]
            /\ UNCHANGED <<documents, written>>
       ELSE /\ documents' = Without(documents, uri)
            /\ written' = Write(written, NotificationPayload("textDocument/didClose",
                               <<[textDocument |-> [uri |-> uri]]>>))
            /\ last' = [op |-> "close", uri |-> uri, status |-> "ok"]
    /\ UNCHANGED docFrame

\* The version is raised only when the text differs from the stored one.
UpdatedIfChanged(document, text) ==
    IF text = document.text THEN document ELSE [document EXCEPT !.version = @ + 1]

\* The version is raised by two.
UpdatedTwice(document, text) == [document EXCEPT !.version = @ + 2]

\* The document record update_document leaves in self._documents[uri]: the
\* version is raised; the text is the one the document was opened with.
Updated(document, text) == [document EXCEPT !.version = @ + 1]

\* update_document(uri, text)
UpdateDocument(uri, text) ==
    /\ ops < MaxDocOps
    /\ ops' = ops + 1
    /\ IF uri \notin DOMAIN documents
       THEN /\ last' = [op |-> "update", uri |-> uri, status |-> "ValueError"]
            /\ UNCHANGED <<documents, written>>
       ELSE IF server_capabilities = <<>>
       THEN /\ last' = [op |-> "update", uri |-> uri, status |-> "AssertionError"]
            /\ UNCHANGED <<documents, written>>
       ELSE IF "textDocumentSync" \notin DOMAIN server_capabilities[1]
       THEN /\ last' = [op |-> "update", uri |-> uri, status |-> "KeyError"]
            /\ UNCHANGED <<documents, written>>
       ELSE LET document == Updated(documents[uri], text)
                content_changes == ContentChanges(server_capabilities[1]["textDocumentSync"],
                                                  documents[uri].text, text)
            IN /\ documents' = [documents EXCEPT ![uri] = document]
               /\ written' = Write(written, NotificationPayload("textDocument/didChange",
                                  <<[textDocument |-> [uri |-> uri, version |-> document.version],
                                     contentChanges |-> content_changes]>>))
               /\ last' = [op |-> "update", uri |-> uri, status |-> "ok"]
    /\ UNCHANGED docFrame

\* ---- the server's copy of the documents (LSP: didOpen, didChange, didClose)
Min(a, b) == IF a <= b THEN a ELSE b

RECURSIVE LineStart(_, _)
\* Offset of the start of line n (from 0) in a text with the pieces ls.
LineStart(ls, n) == IF n = 0 THEN 0 ELSE LineStart(ls, n - 1) + Len(ls[n]) + 1

\* Offset of a position; a position beyond the text is clamped to its end, a
\* character beyond its line to the line's end.
Offset(t, pos) ==
    LET ls == Split(t) IN
    IF pos.line >= Len(ls) THEN Len(t)
    ELSE LineStart(ls, pos.line) + Min(pos.character, Len(ls[pos.line + 1]))

ApplyChange(t, ch) ==
    IF "range" \in DOMAIN ch
    THEN LET s == Offset(t, ch.range.start)
             e == Offset(t, ch.range.end)
         IN SubSeq(t, 1, s) \o ch.text \o SubSeq(t, e + 1, Len(t))
    ELSE ch.text

RECURSIVE ApplyChanges(_, _)
ApplyChanges(t, chs) ==
    IF chs = <<>> THEN t ELSE ApplyChanges(ApplyChange(t, chs[1]), Tail(chs))

\* The server's copies once it has read every frame in w.
RECURSIVE ServerCopies(_)
ServerCopies(w) ==
    IF w = <<>> THEN <<>>
    ELSE LET before == ServerCopies(SubSeq(w, 1, Len(w) - 1))
             m == w[Len(w)]
         IN
         IF "method" \notin DOMAIN m \/ "params" \notin DOMAIN m THEN before
         ELSE IF m.method = "textDocument/didOpen"
         THEN With(before, m.params.textDocument.uri, m.params.textDocument.text)
         ELSE IF m.method = "textDocument/didClose"
         THEN Without(before, m.params.textDocument.uri)
         ELSE IF m.method = "textDocument/didChange" /\ m.params.textDocument.uri \in DOMAIN before
         THEN [before EXCEPT ![m.params.textDocument.uri] = ApplyChanges(@, m.params.contentChanges)]
         ELSE before

\* LspClient._send(method, params), lines 300-304, for a request other than
\* initialize: the token is put in work_progress and in params, then send().
Request(c) ==
    /\ NextCaller(c)
    /\ work_progress' = work_progress \cup {c}
    /\ SendRequest(c, "request", "textDocument/hover", [workDoneToken |-> c])
    /\ UNCHANGED <<read_loop_task, started, on_notification, inbuf, eof, notified, inlog,
                   sent, stops, server_capabilities, exiting, docVars, window, on_close, closes>>

\* LspClient.initialize(params), line 215: requests.initialize goes through
\* LspClient._send.
Initialize(c) ==
    /\ NextCaller(c)
    /\ \A d \in Callers : caller[d].kind # "initialize"
    /\ work_progress' = work_progress \cup {c}
    /\ SendRequest(c, "initialize", "initialize", [workDoneToken |-> c])
    /\ UNCHANGED <<read_loop_task, started, on_notification, inbuf, eof, notified, inlog,
                   sent, stops, server_capabilities, exiting, docVars, window, on_close, closes>>

\* exit(), line 294: the exit notification is written; the caller is in its drain.
ExitNotify ==
    /\ stops + exiting < MaxStops
    /\ exiting' = exiting + 1
    /\ written' = Write(written, NotificationPayload("exit", <<>>))
    /\ UNCHANGED <<callback_id, callbacks, futures, read_loop_task, started, on_notification,
                   inbuf, eof, caller, notified, inlog, sent, stops, server_capabilities,
                   work_progress, docVars, window, on_close, closes>>

\* exit() stops the dispatcher without having written its notification.
ExitStopFirst ==
    /\ stops + exiting < MaxStops
    /\ stops' = stops + 1
    /\ StopDispatcher
    /\ UNCHANGED <<started, on_notification, inbuf, eof, written, caller, notified, inlog, sent,
                   server_capabilities, work_progress, exiting, docVars, window, on_close, closes>>

\* exit(), line 295: the drain has returned; the dispatcher is stopped.
ExitStop ==
    /\ exiting > 0
    /\ exiting' = exiting - 1
    /\ stops' = stops + 1
    /\ StopDispatcher
    /\ UNCHANGED <<started, on_notification, inbuf, eof, written, caller, notified, inlog, sent,
                   server_capabilities, work_progress, docVars, window, on_close, closes>>

\* ------------------------------------------------------------- PyroseWindow
\* The window keeps one LspClient at most (lsp_client: 0 is None, else the
\* number of the client), creates one per start_lsp task whose server could be
\* spawned, and looks at a client only through what is recorded in
\* window.clients: its server_capabilities (<<>> is None), whether the
\* document is open in it, whether exit() was called on it, and how many
\* update_document calls the editor made on it.
LanguageIds == {"python3", "c"}

\* The capabilities the window looks for.
CapabilityNames == {"completionProvider", "hoverProvider"}

\* What initialize() may leave in server_capabilities.
CapabilitySets == {<<>>} \cup {<<caps>> : caps \in SUBSET CapabilityNames}

\* LspClient(process.stdout, process.stdin), lines 195-206 of lsp_client.py.
NewClient ==
    [server_capabilities |-> <<>>, open |-> FALSE, exit |-> FALSE, handler |-> FALSE,
     updates |-> 0]

\* A start_lsp task that has not run yet.
NewTask == [pc |-> "spawn", client |-> 0, outcome |-> ""]

\* set_language(language), window.py lines 181-253: the client the window
\* holds is told to exit (in a task of its own) and forgotten, the providers
\* the window remembers are removed from the view, and for Python a start_lsp
\* task is created.  The buffer text set at the end reaches on_editor_changed
\* while lsp_client is None.
SetLanguage(language) ==
    /\ window.selections < MaxSelections
    /\ language = "python3" => Len(window.tasks) < MaxTasks
    /\ LET w == window
           held == w.lsp_client # 0
       IN window' =
             [w EXCEPT !.selections = @ + 1,
                       !.language = language,
                       !.clients = IF held THEN [@ EXCEPT ![w.lsp_client].exit = TRUE] ELSE @,
                       !.lsp_client = 0,
                       !.completion = IF held /\ w.completion_provider # NoProvider
                                      THEN @ \ {w.completion_provider} ELSE @,
                       !.hover = IF held /\ w.hover_provider # NoProvider
                                 THEN @ \ {w.hover_provider} ELSE @,
                       !.tasks = IF language = "python3" THEN Append(@, NewTask) ELSE @]
    /\ UNCHANGED winFrame

\* start_lsp, lines 194-200: the server was spawned; the client is created,
\* kept by the window, given the notification handler, and initialize() is
\* called on it.
Spawned(w, t) ==
    LET k == Len(w.clients) + 1 IN
    [w EXCEPT !.clients = Append(@, [NewClient EXCEPT !.handler = TRUE]),
              !.lsp_client = k,
              !.tasks[t].pc = "initialize",
              !.tasks[t].client = k]

\* The failure is noted and start_lsp goes on as if the server was there.
SpawnIgnored(w, t) == [Spawned(w, t) EXCEPT !.tasks[t].outcome = "OSError"]

\* start_lsp, lines 189-193: start_lsp_process raised OSError; it is caught and
\* the task returns.
SpawnFailed(w, t) == [w EXCEPT !.tasks[t].pc = "done", !.tasks[t].outcome = "OSError"]

\* `await start_lsp_process("pyrefly", ["lsp"])` ends: the process exists, or
\* create_subprocess_exec raised OSError (lsp_client.py lines 359-365 catch
\* nothing).
Spawn(t) ==
    /\ t \in DOMAIN window.tasks
    /\ window.tasks[t].pc = "spawn"
    /\ \E ok \in BOOLEAN :
          window' = IF ok THEN Spawned(window, t) ELSE SpawnFailed(window, t)
    /\ UNCHANGED winFrame

\* The task ends with an exception.
TaskFails(w, t, exc) == [w EXCEPT !.tasks[t].pc = "failed", !.tasks[t].outcome = exc]

\* start_lsp, lines 205-212: for the client the window holds now, the
\* providers its capabilities name are created, remembered and added to the
\* view.
AddProviders(w, t) ==
    IF w.lsp_client = 0 THEN TaskFails(w, t, "AttributeError")
    ELSE LET cur == w.lsp_client
             caps == w.clients[cur].server_capabilities
             p == [task |-> t, client |-> cur]
         IN IF caps = <<>> THEN TaskFails(w, t, "TypeError")
            ELSE LET c == "completionProvider" \in caps[1]
                     h == "hoverProvider" \in caps[1]
                 IN [w EXCEPT !.completion_provider = IF c THEN p ELSE @,
                              !.completion = IF c THEN @ \cup {p} ELSE @,
                              !.hover_provider = IF h THEN p ELSE @,
                              !.hover = IF h THEN @ \cup {p} ELSE @,
                              !.tasks[t].pc = "done",
                              !.tasks[t].outcome = "returned"]

\* start_lsp, lines 201-204, once initialize() has returned: the client the
\* window holds now is looked at and the document opened in it; the task is
\* then suspended in open_document (suspend) or goes on.
AfterInitialize(w, t, suspend) ==
    IF w.lsp_client = 0 THEN TaskFails(w, t, "AttributeError")
    ELSE LET cur == w.lsp_client IN
         IF w.clients[cur].server_capabilities = <<>>
         THEN [w EXCEPT !.tasks[t].pc = "done", !.tasks[t].outcome = "failed to connect lsp"]
         ELSE IF w.clients[cur].open THEN TaskFails(w, t, "ValueError")
         ELSE LET opened == [w EXCEPT !.clients[cur].open = TRUE] IN
              IF suspend THEN [opened EXCEPT !.tasks[t].pc = "open"]
              ELSE AddProviders(opened, t)

\* `await self.lsp_client.initialize(...)` (line 200) ends: it raises (an error
\* response, a cancellation by stop()), or it has set server_capabilities.
InitializeDone(t) ==
    /\ t \in DOMAIN window.tasks
    /\ window.tasks[t].pc = "initialize"
    /\ \E raised \in BOOLEAN, caps \in CapabilitySets, suspend \in BOOLEAN :
          IF raised
          THEN /\ caps = <<>> /\ ~suspend
               /\ window' = TaskFails(window, t, "ValueError")
          ELSE window' =
                  AfterInitialize([window EXCEPT
                                      !.clients[window.tasks[t].client].server_capabilities = caps],
                                  t, suspend)
    /\ UNCHANGED winFrame

\* `await self.lsp_client.open_document(...)` (line 204) returns.
OpenDone(t) ==
    /\ t \in DOMAIN window.tasks
    /\ window.tasks[t].pc = "open"
    /\ window' = AddProviders(window, t)
    /\ UNCHANGED winFrame

\* on_editor_changed, lines 78-84: without a client nothing happens, else
\* update_document is called on the client the window holds.
EditorChanged ==
    /\ window.changes < MaxChanges
    /\ window' = IF window.lsp_client = 0 THEN [window EXCEPT !.changes = @ + 1]
                 ELSE [window EXCEPT !.changes = @ + 1,
                                     !.clients[window.lsp_client].updates = @ + 1]
    /\ UNCHANGED winFrame

\* The dispatcher with callers of send(), a server that answers, and stop().
Next ==
    \/ Start
    \/ Stop
    \/ \E c \in Callers : Send(c)
    \/ \E c \in Callers : DrainDone(c)
    \/ \E c \in Callers : Resume(c)
    \/ ReadLoopBegin
    \/ ReadStep
    \/ ServerWrite(RpcFrames)

Spec == Init /\ [][Next]_vars

\* The frame codec and the read loop against well-formed and malformed frames.
NextCodec ==
    \/ Start
    \/ Stop
    \/ ReadLoopBegin
    \/ ReadStep
    \/ SetNotificationHandler
    \/ ServerWrite(CodecFrames)
    \/ ServerWriteTwo(CodecFrames)
    \/ ServerClose

SpecCodec == Init /\ [][NextCodec]_vars

\* The writers of the stream: callers of send and of send_notification, and
\* the read loop, which answers some frames with send_error.
NextWire ==
    \/ Start
    \/ \E c \in Callers : Send(c)
    \/ \E c \in Callers : DrainDone(c)
    \/ \E c \in Callers : Resume(c)
    \/ SendNotification
    \/ ReadLoopBegin
    \/ ReadStep
    \/ ServerWrite(WireFrames)

SpecWire == Init /\ [][NextWire]_vars

\* Callers of send and a notification handler against messages of another
\* JSON-RPC version.
NextVersion ==
    \/ Start
    \/ \E c \in Callers : Send(c)
    \/ \E c \in Callers : DrainDone(c)
    \/ \E c \in Callers : Resume(c)
    \/ SetNotificationHandler
    \/ ReadLoopBegin
    \/ ReadStep
    \/ ServerWrite(VersionFrames)

SpecVersion == Init /\ [][NextVersion]_vars

\* The dispatcher stopped and started again, with a notification handler,
\* against messages whose id is not that of a pending call or that carry a
\* method with their id.
NextStray ==
    \/ Start
    \/ Stop
    \/ StartAgain
    \/ \E c \in Callers : Send(c)
    \/ \E c \in Callers : DrainDone(c)
    \/ \E c \in Callers : Resume(c)
    \/ SetNotificationHandler
    \/ ReadLoopBegin
    \/ ReadStep
    \/ ServerWrite(StrayFrames)

SpecStray == Init /\ [][NextStray]_vars

\* Callers of send() whose write the peer may reset, with and without an
\* on_close callback.
NextReset ==
    \/ Start
    \/ \E c \in Callers : Send(c)
    \/ \E c \in Callers : DrainDone(c)
    \/ \E c \in Callers : DrainReset(c)
    \/ \E c \in Callers : Resume(c)
    \/ SetOnClose
    \/ ReadLoopBegin
    \/ ReadStep
    \/ ServerWrite(RpcFrames)

SpecReset == Init /\ [][NextReset]_vars

\* Callers of send() and the window's notification handler.
NextHandler ==
    \/ Start
    \/ \E c \in Callers : Send(c)
    \/ \E c \in Callers : DrainDone(c)
    \/ \E c \in Callers : Resume(c)
    \/ SetWindowHandler
    \/ ReadLoopBegin
    \/ ReadStep
    \/ ServerWrite(HandlerFrames)
    \/ ServerWriteTwo(HandlerFrames)

SpecHandler == Init /\ [][NextHandler]_vars

\* The dispatcher stopped and started again, with callers on either side of
\* the stop and a server that answers each request once.
NextRestart ==
    \/ Start
    \/ Stop
    \/ StartAgain
    \/ \E c \in Callers : Send(c)
    \/ \E c \in Callers : DrainDone(c)
    \/ \E c \in Callers : Resume(c)
    \/ ReadLoopBegin
    \/ ReadStep
    \/ ServerAnswer

SpecRestart == Init /\ [][NextRestart]_vars

\* The session: the handshake, other requests and exit().
NextSession ==
    \/ Start
    \/ \E c \in Callers : Initialize(c)
    \/ \E c \in Callers : Request(c)
    \/ \E c \in Callers : DrainDone(c)
    \/ \E c \in Callers : Resume(c)
    \/ ReadLoopBegin
    \/ ReadStep
    \/ ServerWrite(SessionFrames)
    \/ ExitNotify
    \/ ExitStop

SpecSession == Init /\ [][NextSession]_vars

\* The state the handshake leaves when the server answers initialize with the
\* result r: reached by Start, ReadLoopBegin, Initialize(1), DrainDone(1), the
\* server's frame, ReadStep and Resume(1).
Handshaken(r) ==
    /\ callback_id = 2
    /\ callbacks = <<>>
    /\ futures = [c \in Callers |-> IF c = 1 THEN [state |-> "result", value |-> r, by |-> 1]
                                    ELSE [state |-> "none", value |-> "", by |-> 0]]
    /\ read_loop_task = "running"
    /\ started = TRUE
    /\ on_notification = 0
    /\ inbuf = <<>>
    /\ eof = FALSE
    /\ written = <<RequestPayload(1, "initialize", [workDoneToken |-> 1]),
                   NotificationPayload("initialized", <<"{}">>)>>
    /\ caller = [c \in Callers |->
                    IF c = 1 THEN [pc |-> "done", kind |-> "initialize", id |-> 1, fut |-> 1,
                                   outcome |-> [kind |-> "returned", value |-> ""]]
                    ELSE [pc |-> "idle", kind |-> "", id |-> 0, fut |-> 0, outcome |-> NoOutcome]]
    /\ notified = <<>>
    /\ inlog = <<[jsonrpc |-> "2.0", id |-> 1, result |-> r]>>
    /\ sent = <<r>>
    /\ stops = 0
    /\ server_capabilities = <<CapsOf(r)>>
    /\ documents = <<>>
    /\ work_progress = {}
    /\ exiting = 0
    /\ last = NoCall
    /\ ops = 0
    /\ window = NoWindow
    /\ on_close = 0
    /\ closes = 0

\* The client as constructed, or after a handshake with any sync kind.
InitDocs == Init \/ \E r \in CapsResults : Handshaken(r)

\* The document operations of a session.
NextDocs ==
    \/ \E uri \in Uris, text \in Texts : OpenDocument(uri, text)
    \/ \E uri \in Uris : CloseDocument(uri)
    \/ \E uri \in Uris, text \in Texts : UpdateDocument(uri, text)

SpecDocs == InitDocs /\ [][NextDocs]_vars

\* The state exit() leaves after a handshake with the result r: reached from
\* Handshaken(r) by ExitNotify and ExitStop.
Exited(r) ==
    /\ callback_id = 1
    /\ callbacks = <<>>
    /\ futures = [c \in Callers |-> IF c = 1 THEN [state |-> "result", value |-> r, by |-> 1]
                                    ELSE [state |-> "none", value |-> "", by |-> 0]]
    /\ read_loop_task = "cancelled"
    /\ started = TRUE
    /\ on_notification = 0
    /\ inbuf = <<>>
    /\ eof = FALSE
    /\ written = <<RequestPayload(1, "initialize", [workDoneToken |-> 1]),
                   NotificationPayload("initialized", <<"{}">>),
                   NotificationPayload("exit", <<>>)>>
    /\ caller = [c \in Callers |->
                    IF c = 1 THEN [pc |-> "done", kind |-> "initialize", id |-> 1, fut |-> 1,
                                   outcome |-> [kind |-> "returned", value |-> ""]]
                    ELSE [pc |-> "idle", kind |-> "", id |-> 0, fut |-> 0, outcome |-> NoOutcome]]
    /\ notified = <<>>
    /\ inlog = <<[jsonrpc |-> "2.0", id |-> 1, result |-> r]>>
    /\ sent = <<r>>
    /\ stops = 1
    /\ server_capabilities = <<CapsOf(r)>>
    /\ documents = <<>>
    /\ work_progress = {}
    /\ exiting = 0
    /\ last = NoCall
    /\ ops = 0
    /\ window = NoWindow
    /\ on_close = 0
    /\ closes = 0

\* The session after exit().
InitClosed == \E r \in CapsResults : Exited(r)

\* What a client can still be asked to do once exit() has returned.
NextClosed ==
    \/ \E uri \in Uris, text \in Texts : OpenDocument(uri, text)
    \/ \E uri \in Uris : CloseDocument(uri)
    \/ \E uri \in Uris, text \in Texts : UpdateDocument(uri, text)
    \/ \E c \in Callers : Request(c)
    \/ \E c \in Callers : DrainDone(c)

SpecClosed == InitClosed /\ [][NextClosed]_vars

\* The window: language selections, start_lsp tasks and editor changes.
NextWindow ==
    \/ \E language \in LanguageIds : SetLanguage(language)
    \/ \E t \in 1..MaxTasks : Spawn(t)
    \/ \E t \in 1..MaxTasks : InitializeDone(t)
    \/ \E t \in 1..MaxTasks : OpenDone(t)
    \/ EditorChanged

SpecWindow == Init /\ [][NextWindow]_vars

\* ------------------------------------------------------------- claims
Returned(c) == caller[c].pc = "done" /\ caller[c].outcome.kind = "result"

\* The read loop's task ended with an exception.
Crashed == read_loop_task \notin {"none", "created", "running", "cancelled", "done"}

\* C1: a caller of send() that gets a result gets the result of the response
\* whose id is the id its own request was given, whatever the order in which
\* the responses arrive; so two callers with different ids never get the same
\* response.
C1_IdCorrelation ==
    \A c \in Callers :
        Returned(c) =>
            LET f == futures[caller[c].fut] IN
            /\ f.by \in 1..Len(inlog)
            /\ inlog[f.by]["id"] = caller[c].id
            /\ inlog[f.by]["result"] = caller[c].outcome.value
            /\ \A d \in Callers :
                  (Returned(d) /\ caller[d].id # caller[c].id) => futures[caller[d].fut].by # f.by

\* Two calls were pending together, the response to the later one was read
\* first, and both callers have their results.
C1_Witness ==
    \E c, d \in Callers :
        /\ stops = 0
        /\ Returned(c) /\ Returned(d)
        /\ caller[c].id = 1 /\ caller[d].id = 2
        /\ futures[caller[d].fut].by < futures[caller[c].fut].by

\* C2: stop() leaves the pending-call table empty, and every caller whose
\* pending call it cancelled fails with a cancellation-kind error.
C2_StopCancelsAll ==
    [][/\ Stop => callbacks' = <<>>
       /\ \A c \in Callers :
             (futures'[c].state = "cancelled" /\ caller'[c].pc = "done")
                 => caller'[c].outcome.kind = "CancelledError"]_vars

MalformedNames == {"badjson", "nolength", "wrongtype"}

\* Frames of Content-Length, at most a Content-Type and a JSON-RPC message: a
\* response or a notification.
MessageNames == {"result1a", "notification", "plain", "utf8text", "escapedtext"}

\* The well-formed frames: headers `Name: value` with a Content-Length, at
\* most a Content-Type that names utf-8, and a JSON body of that length.
WellFormedNames == MessageNames \cup {"array", "bare", "extraheader"}

Count(seq, S) == Cardinality({i \in 1..Len(seq) : seq[i] \in S})

ErrorsWritten == Cardinality({i \in 1..Len(written) : "jsonrpc" \notin DOMAIN written[i]})

\* C3: for each malformed frame (no Content-Length, a body that is not JSON, a
\* Content-Type without utf-8) exactly one error response is written, and the
\* well-formed frames after it are still decoded: the loop is not ended by it.
C3_MalformedFrameSkipped ==
    (stops = 0 /\ ~eof /\ \A i \in 1..Len(sent) : sent[i] \in MalformedNames \cup MessageNames) =>
        /\ ~Crashed
        /\ (read_loop_task = "running" /\ inbuf = <<>>) =>
              /\ ErrorsWritten = Count(sent, MalformedNames)
              /\ Len(inlog) = Count(sent, MessageNames)

\* C4: a caller whose future was resolved by a response gets that response's
\* result when it has one, fails with its error payload when it has an error
\* and no result, and fails with "Invalid message" when it has neither.
C4_ResponseOutcome ==
    \A c \in Callers :
        (caller[c].pc = "done" /\ caller[c].fut # 0 /\ futures[caller[c].fut].by # 0) =>
            LET m == inlog[futures[caller[c].fut].by] IN
            caller[c].outcome =
                IF "result" \in DOMAIN m THEN [kind |-> "result", value |-> m["result"]]
                ELSE IF "error" \in DOMAIN m THEN [kind |-> "ValueError", value |-> m["error"]]
                ELSE [kind |-> "ValueError", value |-> "Invalid message"]

\* ---- document operations
\* The last frame written is the notification `method` for uri.
LastWritten(w, method, uri) ==
    /\ w # <<>>
    /\ "method" \in DOMAIN w[Len(w)]
    /\ w[Len(w)].method = method
    /\ w[Len(w)].params.textDocument.uri = uri

\* The step is a call of `op` on uri that ended with `status`.
Called(op, uri, status) ==
    /\ ops' = ops + 1
    /\ last' = [op |-> op, uri |-> uri, status |-> status]

SyncKind ==
    IF server_capabilities # <<>> /\ "textDocumentSync" \in DOMAIN server_capabilities[1]
    THEN server_capabilities[1]["textDocumentSync"]
    ELSE -1

\* C5: a successful update of an open document raises its version by exactly
\* 1, whatever the new text, and the didChange it writes carries the new
\* version; a step that changes the version of a document that stays open is a
\* successful update of that document.
C5_UpdateBumpsVersion ==
    [][\A uri \in Uris :
          /\ Called("update", uri, "ok") =>
                /\ uri \in DOMAIN documents /\ uri \in DOMAIN documents'
                /\ documents'[uri].version = documents[uri].version + 1
                /\ written' # written
                /\ SubSeq(written', 1, Len(written)) = written
                /\ Len(written') = Len(written) + 1
                /\ LastWritten(written', "textDocument/didChange", uri)
                /\ written'[Len(written')].params.textDocument.version = documents'[uri].version
          /\ (/\ uri \in DOMAIN documents /\ uri \in DOMAIN documents'
              /\ documents'[uri].version # documents[uri].version)
                => Called("update", uri, "ok")]_vars

\* Under Full sync two updates in a row carried the same text, the second one
\* the text the server already had, and the versions sent are 1 and 2.
C5_Witness ==
    \E uri \in Uris :
        /\ SyncKind = 1
        /\ last = [op |-> "update", uri |-> uri, status |-> "ok"]
        /\ Len(written) >= 2
        /\ LastWritten(written, "textDocument/didChange", uri)
        /\ LastWritten(SubSeq(written, 1, Len(written) - 1), "textDocument/didChange", uri)
        /\ written[Len(written)].params.contentChanges
              = written[Len(written) - 1].params.contentChanges
        /\ written[Len(written) - 1].params.textDocument.version = 1
        /\ written[Len(written)].params.textDocument.version = 2
        /\ documents[uri].version = 2

\* C6: open on a tracked URI fails and leaves the document's stored text and
\* version as they were; close and update on an untracked URI fail, leave the
\* document map as it was and write nothing.
C6_FailedCallsChangeNothing ==
    [][\A uri \in Uris :
          /\ (last'.op = "open" /\ last'.uri = uri /\ ops' = ops + 1 /\ uri \in DOMAIN documents)
                => /\ last'.status = "ValueError"
                   /\ uri \in DOMAIN documents'
                   /\ documents'[uri] = documents[uri]
          /\ (/\ last'.op \in {"close", "update"} /\ last'.uri = uri /\ ops' = ops + 1
              /\ uri \notin DOMAIN documents)
                => /\ last'.status = "ValueError"
                   /\ documents' = documents
                   /\ written' = written]_vars

\* A document that has been updated was opened again and the call failed; the
\* document is still at the version the update gave it.
C6_Witness ==
    \E uri \in Uris :
        /\ last = [op |-> "open", uri |-> uri, status |-> "ValueError"]
        /\ uri \in DOMAIN documents
        /\ documents[uri].version = 1
        /\ LastWritten(written, "textDocument/didChange", uri)

\* C8: a successful update writes a didChange whose contentChanges is the
\* empty array under sync kind None and the single change {text: newText}
\* under Full; the first update after open under Full carries version 1.
C8_ContentChangesBySyncKind ==
    [][\A uri \in Uris, text \in Texts :
          (UpdateDocument(uri, text) /\ last'.status = "ok") =>
              /\ LastWritten(written', "textDocument/didChange", uri)
              /\ SyncKind = 0 => written'[Len(written')].params.contentChanges = <<>>
              /\ SyncKind = 1 =>
                    /\ written'[Len(written')].params.contentChanges = <<[text |-> text]>>
                    /\ LastWritten(written, "textDocument/didOpen", uri)
                          => written'[Len(written')].params.textDocument.version = 1]_vars

\* Under Full sync a document was opened with one text and then updated with
\* another: the didChange has version 1 and the one change with the new text.
C8_Witness ==
    \E uri \in Uris :
        /\ SyncKind = 1
        /\ last = [op |-> "update", uri |-> uri, status |-> "ok"]
        /\ Len(written) >= 2
        /\ LastWritten(written, "textDocument/didChange", uri)
        /\ LastWritten(SubSeq(written, 1, Len(written) - 1), "textDocument/didOpen", uri)
        /\ written[Len(written)].params.textDocument.version = 1
        /\ Len(written[Len(written)].params.contentChanges) = 1
        /\ written[Len(written)].params.contentChanges[1].text
              # written[Len(written) - 1].params.textDocument.text

\* C9: under Incremental sync, after every successful update(uri, newText)
\* the server's copy of the document, to which the contentChanges of each
\* didChange were applied in order, is newText.
C9_IncrementalEditsCorrect ==
    [][\A uri \in Uris, text \in Texts :
          (SyncKind = 2 /\ UpdateDocument(uri, text) /\ last'.status = "ok") =>
              /\ uri \in DOMAIN ServerCopies(written')
              /\ ServerCopies(written')[uri] = text]_vars

\* C10: open on an untracked URI records the text at version 0 and writes one
\* didOpen with version 0 and the full text, also when the URI was open
\* before and closed; the version of a document that stays open never
\* decreases.
C10_OpenStartsAtZero ==
    [][\A uri \in Uris :
          /\ (last'.op = "open" /\ last'.uri = uri /\ ops' = ops + 1 /\ uri \notin DOMAIN documents)
                => /\ last'.status = "ok"
                   /\ uri \in DOMAIN documents'
                   /\ documents'[uri].version = 0
                   /\ \A other \in DOMAIN documents : other \in DOMAIN documents'
                                                      /\ documents'[other] = documents[other]
                   /\ Len(written') = Len(written) + 1
                   /\ SubSeq(written', 1, Len(written)) = written
                   /\ LastWritten(written', "textDocument/didOpen", uri)
                   /\ written'[Len(written')].params.textDocument.version = 0
                   /\ written'[Len(written')].params.textDocument.text = documents'[uri].text
                   /\ \E text \in Texts : /\ OpenDocument(uri, text)
                                          /\ documents'[uri].text = text
          /\ (uri \in DOMAIN documents /\ uri \in DOMAIN documents')
                => documents'[uri].version >= documents[uri].version]_vars

\* A document was opened, updated, closed and opened again: it is at
\* version 0 and the didOpen just written says so.
C10_Witness ==
    \E uri \in Uris :
        /\ last = [op |-> "open", uri |-> uri, status |-> "ok"]
        /\ Len(written) >= 3
        /\ LastWritten(written, "textDocument/didOpen", uri)
        /\ LastWritten(SubSeq(written, 1, Len(written) - 1), "textDocument/didClose", uri)
        /\ LastWritten(SubSeq(written, 1, Len(written) - 2), "textDocument/didChange", uri)
        /\ written[Len(written)].params.textDocument.version = 0
        /\ documents[uri].version = 0

\* ---- the handshake
InitializedWritten ==
    \E i \in 1..Len(written) :
        "method" \in DOMAIN written[i] /\ written[i].method = "initialized"

\* The response that resolved the future of caller c.
ResponseOf(c) == inlog[futures[caller[c].fut].by]

HandshakeDone == \E r \in CapsResults : Handshaken(r)

\* ---- exit()
\* Number of exit notifications among the frames written.
ExitFrames(w) ==
    Cardinality({i \in 1..Len(w) : "method" \in DOMAIN w[i] /\ w[i].method = "exit"})

\* C11: exit() writes its exit notification before it stops the dispatcher: a
\* step of exit() that stops the dispatcher, cancels a pending call or cancels
\* the read loop finds the exit frame of that call already written.
C11_ExitFrameBeforeStop ==
    [][/\ stops' # stops => (stops' = stops + 1 /\ ExitFrames(written) >= stops' /\ written' = written)
       /\ (\E c \in Callers : futures[c].state # "cancelled" /\ futures'[c].state = "cancelled")
             => ExitFrames(written) >= 1
       /\ (read_loop_task # "cancelled" /\ read_loop_task' = "cancelled")
             => ExitFrames(written) >= 1]_vars

\* exit() has run while a request was pending and the read loop was waiting:
\* the call and the loop are cancelled, and the exit frame is the last written.
C11_Witness ==
    /\ stops = 1
    /\ exiting = 0
    /\ read_loop_task = "cancelled"
    /\ \E c \in Callers : futures[c].state = "cancelled"
    /\ written # <<>>
    /\ "method" \in DOMAIN written[Len(written)]
    /\ written[Len(written)].method = "exit"

\* The session is in the state exit() left it in.
ExitDone == \E r \in CapsResults : Exited(r)

\* C12: once exit() has returned no operation of the session succeeds or
\* writes a frame: open, close and update fail, a request does not go out.
C12_ClosedIsTerminal ==
    [][/\ written' = written
       /\ ops' # ops => last'.status # "ok"
       /\ \A c \in Callers :
             (caller[c].pc = "idle" /\ caller'[c].pc # "idle")
                 => (caller'[c].pc = "done" /\ caller'[c].outcome.kind # "result")]_vars

\* No handshake has succeeded: server_capabilities is unset.
Uninitialized == server_capabilities = <<>>

\* C13: a document operation called before initialize has succeeded fails,
\* changes no document state and writes no notification.
C13_DocumentOpsRequireReady ==
    [][(Uninitialized /\ ops' # ops) =>
          /\ last'.status # "ok"
          /\ documents' = documents
          /\ written' = written]_vars

\* C14: the work-done token of a request that has completed, with a result,
\* with a server error or by cancellation, is no longer in the token map; with
\* no request in flight the map is empty.
C14_TokenRemovedOnCompletion ==
    /\ \A c \in Callers :
          (caller[c].pc = "done" /\ caller[c].kind \in {"request", "initialize"})
              => c \notin work_progress
    /\ (\A c \in Callers : caller[c].pc \in {"idle", "done"}) => work_progress = {}

\* ---- the frames written
\* C15: a call of send_notification (or send) with an empty method writes no
\* frame: no frame that was written names an empty method.
C15_EmptyMethodWritesNothing ==
    \A i \in 1..Len(written) :
        "method" \in DOMAIN written[i] => written[i].method # ""

RECURSIVE Stream(_)
\* The bytes the writer has been handed: those of each write() call, in order.
Stream(w) == IF w = <<>> THEN <<>> ELSE Stream(SubSeq(w, 1, Len(w) - 1)) \o Encode(w[Len(w)])

RECURSIVE PeerBodies(_)
\* The bodies the peer reads from a byte stream, frame after frame: the
\* header lines up to the blank line, then Content-Length bytes.  A stream
\* that is no concatenation of whole frames ends the list with <<"?">>.
PeerBodies(bytes) ==
    IF bytes = <<>> THEN <<>>
    ELSE LET h == ReadHeaders(bytes, TRUE, <<>>) IN
         IF h.kind # "headers" \/ ~IsInt(HeaderGet(h.headers, <<"CL">>)) THEN <<<<"?">>>>
         ELSE LET n == IntOf(HeaderGet(h.headers, <<"CL">>)) IN
              IF Len(h.rest) < n THEN <<<<"?">>>>
              ELSE <<SubSeq(h.rest, 1, n)>> \o PeerBodies(SubSeq(h.rest, n + 1, Len(h.rest)))

\* C16: whichever of send, send_notification and send_error writes, and
\* whoever else is in a drain at that moment, the write adds one whole frame
\* after the frames written before: the stream is then as before followed by
\* that frame, and the peer reads from it the bodies of the messages in the
\* order of their writes.
C16_WholeFramesInOrder ==
    [][written' # written =>
          /\ Len(written') = Len(written) + 1
          /\ SubSeq(written', 1, Len(written)) = written
          /\ Stream(written') = Stream(written) \o Encode(written'[Len(written')])
          /\ PeerBodies(Stream(written'))
                = [i \in 1..Len(written') |-> StrEncode(JsonDumps(written'[i]))]]_vars

\* Two callers of send are in their write-drains, and a notification and an
\* error response of the read loop have been written as well.
C16_Witness ==
    /\ \E c, d \in Callers : c # d /\ caller[c].pc = "drain" /\ caller[d].pc = "drain"
    /\ NotesWritten >= 1
    /\ \E i \in 1..Len(written) : "jsonrpc" \notin DOMAIN written[i]
    /\ Len(written) >= 4

\* The bytes of the frame of written[i] that follow its blank line.
BodyBytes(i) == ReadHeaders(Encode(written[i]), TRUE, <<>>).rest

\* The value of the Content-Length header of the frame of written[i].
LengthHeader(i) == HeaderGet(ReadHeaders(Encode(written[i]), TRUE, <<>>).headers, <<"CL">>)

\* C18: the frame of every message written has a Content-Length header whose
\* value is the number of bytes of the encoded JSON body after the blank
\* line, also when a string of the message holds a character that is not
\* ASCII.
C18_ContentLengthIsBodyBytes ==
    \A i \in 1..Len(written) :
        /\ ReadHeaders(Encode(written[i]), TRUE, <<>>).kind = "headers"
        /\ IsInt(LengthHeader(i))
        /\ IntOf(LengthHeader(i)) = Len(BodyBytes(i))
        /\ BodyBytes(i) = StrEncode(JsonDumps(written[i]))

\* A notification whose params hold a character that is not ASCII has been
\* written.
C18_Witness ==
    \E i \in 1..Len(written) :
        /\ "jsonrpc" \in DOMAIN written[i]
        /\ "id" \notin DOMAIN written[i]
        /\ "params" \in DOMAIN written[i]
        /\ \E k \in 1..Len(written[i].params) : written[i].params[k] = "U+00E9"

\* ---- round trip
\* The buffer starts with the bytes of `frame`.
HeadIs(buf, frame) == Len(buf) >= Len(frame) /\ SubSeq(buf, 1, Len(frame)) = frame

\* C17: when the reader meets a well-formed frame, it decodes it and consumes
\* the bytes of that frame and no other, and the message it yields, encoded
\* by _send and decoded again, is a message with the same fields and the same
\* values.
C17_RoundTrip ==
    [][\A name \in WellFormedNames :
          (/\ read_loop_task = "running"
           /\ HeadIs(inbuf, ServerFrame(name))
           /\ sent' = sent
           /\ inbuf' # inbuf) =>
              LET first == Decode(ServerFrame(name), FALSE)
                  again == Decode(Encode(first.msg), FALSE)
              IN /\ first.kind = "message"
                 /\ inbuf = ServerFrame(name) \o inbuf'
                 /\ inlog' = Append(inlog, first.msg)
                 /\ again.kind = "message"
                 /\ again.object = first.object
                 /\ again.msg = first.msg
                 /\ again.rest = <<>>]_vars

\* ---- messages the read loop has no use for
\* C19: while the stream is open and stop() was not called, no well-framed
\* message ends the read loop: an object with neither id nor method and a
\* body that is no object are dropped (nothing is written, nothing forwarded
\* for them), and the messages after them are still processed.
C19_NoMessageEndsLoop ==
    (stops = 0 /\ ~eof /\ \A i \in 1..Len(sent) : sent[i] \in MessageNames \cup {"array", "bare"}) =>
        /\ ~Crashed
        /\ (read_loop_task = "running" /\ inbuf = <<>>) =>
              /\ Len(inlog) = Len(sent)
              /\ written = <<>>
              /\ Len(notified) <= Count(sent, MessageNames \ {"result1a"})

\* dict.get(key), "None" when the key is missing.
Field(m, key) == IF key \in DOMAIN m THEN m[key] ELSE "None"

\* C20: when the read loop takes a message (jsonrpc "2.0") that has no id, the
\* handler registered at that moment gets (method, params) once, after all it
\* got before; with no handler registered nothing is forwarded; and no
\* pending call is resolved, failed or removed.
C20_NotificationForwardedOnce ==
    [][(read_loop_task = "running" /\ sent' = sent /\ inlog' # inlog) =>
          LET m == inlog'[Len(inlog')] IN
          ("jsonrpc" \in DOMAIN m /\ m["jsonrpc"] = "2.0" /\ "id" \notin DOMAIN m) =>
              /\ notified' =
                    IF on_notification = 0 THEN notified
                    ELSE Append(notified,
                                [handler |-> on_notification,
                                 method |-> Field(m, "method"),
                                 params |-> IF "params" \in DOMAIN m THEN <<m["params"]>>
                                            ELSE <<>>])
              /\ futures' = futures
              /\ callbacks' = callbacks]_vars

\* ---- end of stream
\* C21: when the stream ends after whole frames (each one a message the loop
\* accepts), the read loop does not end with an exception and no error
\* response is written.
C21_EndOfStreamIsClean ==
    (eof /\ stops = 0 /\ \A i \in 1..Len(sent) : sent[i] \in MessageNames) =>
        /\ ~Crashed
        /\ ErrorsWritten = 0

\* ---- the pending-call table
\* The caller c has resumed from a call that a response resolved.
ResumedFromResponse(c) ==
    caller[c].pc = "done" /\ caller[c].fut # 0 /\ futures[caller[c].fut].by # 0

\* C23: once the response to a pending call has been processed (with a
\* result, an error or neither) and the caller has resumed, the table of
\* pending calls does not hold that call's id (no stop(), so no id is given
\* twice).
C23_ResponseRemovesPendingCall ==
    \A c \in Callers :
        (stops = 0 /\ ResumedFromResponse(c)) => caller[c].id \notin DOMAIN callbacks

\* The call that was given the id `id` has been resolved by a response.
Resolved(id) ==
    \E c \in Callers :
        /\ caller[c].pc # "idle"
        /\ caller[c].id = id
        /\ futures[c].state \in {"result", "exception"}

\* C24: when the read loop takes a response whose id is that of a call
\* already resolved (no stop(), so the id is that call's alone), no future
\* changes, so no caller's outcome does, and the read loop does not end with
\* an exception.
C24_DuplicateResponseDiscarded ==
    [][(stops = 0 /\ read_loop_task = "running" /\ sent' = sent /\ inlog' # inlog) =>
          LET m == inlog'[Len(inlog')] IN
          ("id" \in DOMAIN m /\ Resolved(m["id"])) =>
              /\ futures' = futures
              /\ ~Crashed']_vars

\* C25: every id in the table whose call is pending is below the next id
\* send() will assign, and its future is awaited by no caller but the one
\* whose send() created it.
C25_OneCallerPerPendingId ==
    \A i \in DOMAIN callbacks :
        futures[callbacks[i]].state = "pending" =>
            /\ i < callback_id
            /\ \A c \in Callers :
                  (caller[c].pc = "await" /\ caller[c].fut = callbacks[i]) => c = callbacks[i]

\* ---- the stored text
\* C26: after every successful update(uri, text) the text stored for uri is
\* text, the one the next update under Incremental sync takes the range of its
\* delete edit from.
C26_UpdateStoresText ==
    [][\A uri \in Uris, text \in Texts :
          (UpdateDocument(uri, text) /\ last'.status = "ok") =>
              /\ uri \in DOMAIN documents'
              /\ documents'[uri].text = text]_vars

\* ---- rejected frames
\* C27: when the reader rejects the frame whose Content-Type does not name
\* utf-8, it consumes that frame whole, its body included: what is left in
\* the buffer is what followed the frame.
C27_RejectedFrameConsumedWhole ==
    [][(/\ read_loop_task = "running"
        /\ HeadIs(inbuf, ServerFrame("wrongtype"))
        /\ sent' = sent
        /\ inbuf' # inbuf) => inbuf = ServerFrame("wrongtype") \o inbuf']_vars

\* ---- error responses
\* C28: the frame send_error(code, message, data) writes has a field "code"
\* with the code given, a field "message" with the message given and, when
\* data is given, a field "data" with it.  The calls are those the reader
\* makes when it rejects a frame.
C28_ErrorObjectFields ==
    [][(written' # written /\ sent' = sent /\ inbuf' # inbuf) =>
          LET d == Decode(inbuf, eof)
              m == written'[Len(written')]
          IN d.kind = "error" =>
                /\ "code" \in DOMAIN m /\ m["code"] = d.code
                /\ "message" \in DOMAIN m /\ m["message"] = d.message
                /\ d.data # "" => ("data" \in DOMAIN m /\ m["data"] = d.data)]_vars

\* C29: when the reader meets a frame whose Content-Length is no number, or
\* a negative one, it writes one error response and the read loop does not
\* end.
C29_InvalidLengthAnswered ==
    [][\A name \in {"badlength", "neglength"} :
          (/\ read_loop_task = "running"
           /\ HeadIs(inbuf, ServerFrame(name))
           /\ sent' = sent
           /\ inbuf' # inbuf) =>
              /\ Len(written') = Len(written) + 1
              /\ "jsonrpc" \notin DOMAIN written'[Len(written')]
              /\ read_loop_task' = "running"]_vars

\* ---- the jsonrpc member
\* C30: when the read loop takes a message whose jsonrpc member is missing or
\* is not "2.0", it writes one error response with the code of an invalid
\* request (-32600), no future and no entry of the table changes (also when
\* the message has the id of a pending call), no handler is called, and the
\* loop goes on.
C30_OtherVersionRejected ==
    [][(read_loop_task = "running" /\ sent' = sent /\ inlog' # inlog) =>
          LET m == inlog'[Len(inlog')] IN
          ("jsonrpc" \notin DOMAIN m \/ m["jsonrpc"] # "2.0") =>
              /\ Len(written') = Len(written) + 1
              /\ SubSeq(written', 1, Len(written)) = written
              /\ "code" \in DOMAIN written'[Len(written')]
              /\ written'[Len(written')]["code"] = -32600
              /\ futures' = futures
              /\ callbacks' = callbacks
              /\ notified' = notified
              /\ read_loop_task' = "running"]_vars

\* The start_lsp tasks whose server could not be spawned.
SpawnFailures == {t \in DOMAIN window.tasks : window.tasks[t].outcome = "OSError"}

\* No start_lsp task has got a server so far: each has yet to try or has failed.
NothingSpawned ==
    \A t \in DOMAIN window.tasks :
        window.tasks[t].pc = "spawn" \/ window.tasks[t].outcome = "OSError"

\* C22: if the LSP server program cannot be spawned, the failure reaches the
\* caller (start_lsp catches the OSError and returns: the task is done, not
\* failed) and the window is a plain editor: it holds no LSP client, no client
\* was created, no completion or hover provider is remembered or registered in
\* the view, whatever languages were selected and however many editor changes
\* were made; with no client no editor change has called update_document.
C22_SpawnFailureDegrades ==
    NothingSpawned =>
        /\ \A t \in SpawnFailures : window.tasks[t].pc = "done"
        /\ window.lsp_client = 0
        /\ window.clients = <<>>
        /\ window.completion_provider = NoProvider
        /\ window.hover_provider = NoProvider
        /\ window.completion = {}
        /\ window.hover = {}

\* Two selections of Python whose servers both failed to spawn, and the
\* editor changed as often as the bound allows.
C22_Witness ==
    /\ Len(window.tasks) >= 2
    /\ SpawnFailures = DOMAIN window.tasks
    /\ window.selections >= 2
    /\ window.changes = MaxChanges

\* ---- ids that match no pending call
\* The read loop takes the next message in this step.
Takes == read_loop_task = "running" /\ sent' = sent /\ inlog' # inlog

\* The message of jsonrpc "2.0" the read loop takes has an id that is no key
\* of the pending-call table.
StrayId(m) ==
    /\ "jsonrpc" \in DOMAIN m /\ m["jsonrpc"] = "2.0"
    /\ "id" \in DOMAIN m
    /\ m["id"] \notin DOMAIN callbacks

\* C31: when the read loop takes a message whose id matches no pending call
\* (an id never issued, or the id of a call stop() cancelled), the message is
\* dropped: nothing is written, the notification handler is not called, the
\* pending-call table and every future are as before, and the loop goes on.
C31_UnmatchedIdDiscarded ==
    [][Takes =>
          LET m == inlog'[Len(inlog')] IN
          StrayId(m) =>
              /\ written' = written
              /\ notified' = notified
              /\ callbacks' = callbacks
              /\ futures' = futures
              /\ ~Crashed']_vars

\* ---- a write the peer resets
\* C32: when the drain of a caller's write fails with ConnectionResetError,
\* on_close is called once if it is registered (and not at all if not), the
\* caller of send() gets no exception from it (it goes on to await its
\* future, or takes the outcome of a future that is already done), and every
\* call that was pending stays in the table with its future pending.
C32_ResetCallsOnCloseOnly ==
    [][\A c \in Callers :
          DrainReset(c) =>
              /\ closes' = closes + (IF on_close # 0 THEN 1 ELSE 0)
              /\ futures' = futures
              /\ \A i \in DOMAIN callbacks :
                    futures[callbacks[i]].state = "pending" =>
                        i \in DOMAIN callbacks' /\ callbacks'[i] = callbacks[i]
              /\ IF futures[c].state = "pending"
                 THEN caller'[c].pc = "await" /\ caller'[c].fut = c
                 ELSE caller'[c].pc = "done" /\ caller'[c].outcome = FutureOutcome(futures[c])]_vars

\* A reset with on_close registered and one without have happened: one call
\* of on_close was made and both callers still wait for their responses.
C32_Witness ==
    /\ closes = 1
    /\ on_close = 0
    /\ \A c \in Callers : caller[c].pc = "await" /\ futures[c].state = "pending"
    /\ DOMAIN callbacks = {1, 2}

\* ---- requests of the server
\* C33: when the read loop takes a message of jsonrpc "2.0" that has both a
\* method and an id (a request of the server), no pending call of the client
\* is resolved, failed or removed, whatever the id.
C33_ServerRequestLeavesCalls ==
    [][Takes =>
          LET m == inlog'[Len(inlog')] IN
          ("jsonrpc" \in DOMAIN m /\ m["jsonrpc"] = "2.0" /\ "id" \in DOMAIN m
              /\ "method" \in DOMAIN m) =>
                 /\ futures' = futures
                 /\ callbacks' = callbacks]_vars

\* ---- stop() while a caller is in the drain
\* C34: a caller of send() whose future stop() cancelled (it was in the drain
\* of its write, or already awaiting) and that has left the drain awaits its
\* own future and no other caller's, and ends with a cancellation-kind error.
C34_StoppedInDrainIsCancelled ==
    \A c \in Callers :
        (futures[c].state = "cancelled" /\ caller[c].pc \in {"await", "done"}) =>
            /\ caller[c].fut = c
            /\ caller[c].pc = "done" => caller[c].outcome.kind = "CancelledError"

\* ---- the options-object form of textDocumentSync
\* C35: when the server gave textDocumentSync as an options object whose
\* change is Full or Incremental, a successful update writes the
\* contentChanges it writes under the numeric sync kind of that value.
C35_OptionsFormSameChanges ==
    [][\A uri \in Uris, text \in Texts :
          (UpdateDocument(uri, text) /\ last'.status = "ok" /\ SyncKind >= SyncOptions(0)) =>
              written'[Len(written')].params.contentChanges =
                  ContentChanges(SyncKind - SyncOptions(0), documents[uri].text, text)]_vars

\* ---- the order of didChange frames
\* The frame written[i] is a didOpen, didChange or didClose of uri.
DocFrame(i, uri) ==
    /\ "method" \in DOMAIN written[i]
    /\ written[i].method \in {"textDocument/didOpen", "textDocument/didChange",
                              "textDocument/didClose"}
    /\ written[i].params.textDocument.uri = uri

\* C36: on the wire, the frame of uri before a didChange of uri with version
\* v is the didOpen of uri (version 0) when v is 1 and the didChange with
\* version v - 1 otherwise: per open document the versions go up one by one
\* from the didOpen on, none skipped, none repeated, and no didChange comes
\* before the didOpen or after the didClose.
C36_ChangesInVersionOrder ==
    \A uri \in Uris :
        \A i \in 1..Len(written) :
            (DocFrame(i, uri) /\ written[i].method = "textDocument/didChange") =>
                \E j \in 1..(i - 1) :
                    /\ DocFrame(j, uri)
                    /\ \A k \in (j + 1)..(i - 1) : ~DocFrame(k, uri)
                    /\ written[j].method \in {"textDocument/didOpen", "textDocument/didChange"}
                    /\ written[j].params.textDocument.version + 1
                          = written[i].params.textDocument.version

\* Two documents are open and their frames were written in turn: a frame of
\* one document lies between two didChange frames of the other, whose
\* versions are 1 and 2.
C36_Witness ==
    \E uri \in Uris :
        \E i, k \in 1..Len(written) :
            /\ i + 1 < k
            /\ DocFrame(i, uri) /\ written[i].method = "textDocument/didChange"
            /\ DocFrame(k, uri) /\ written[k].method = "textDocument/didChange"
            /\ written[i].params.textDocument.version = 1
            /\ written[k].params.textDocument.version = 2
            /\ \E j \in (i + 1)..(k - 1), other \in Uris \ {uri} : DocFrame(j, other)

\* ---- a notification handler that raises
\* C37: a notification whose handler raises does not end the read loop: the
\* loop's task never ends with an exception, so whatever the server has
\* written behind such a notification (a response to a pending call) is
\* still read: bytes are left in the buffer only while the loop is running
\* (no response is sent twice).
C37_HandlerErrorKeepsLoop ==
    (/\ \A i \in 1..Len(sent) : sent[i] \in HandlerFrames
     /\ \A i, j \in 1..Len(sent) :
           (i # j /\ sent[i] = sent[j]) => sent[i] \in {"notification", "plain"}) =>
        /\ ~Crashed
        /\ inbuf # <<>> => read_loop_task = "running"

\* ---- requests on either side of stop()
\* The caller that wrote the n-th request: callers call in the order of their
\* numbers, and a call with an empty method writes nothing.
Wrote(c) == caller[c].pc # "idle" /\ caller[c].id # 0

RequestOwner(n) ==
    CHOOSE c \in Callers : Wrote(c) /\ Cardinality({d \in 1..c : Wrote(d)}) = n

\* C38: with a server that answers each request once and in order, a caller
\* of send() that gets a result gets the answer to its own request, also when
\* the dispatcher was stopped and started again between two requests: the
\* answer to a request sent before the stop is not the result of a request
\* sent after it.  (The n-th message read is the answer to the n-th request.)
C38_NoResultAcrossStop ==
    \A c \in Callers :
        Returned(c) => RequestOwner(futures[caller[c].fut].by) = c

\* ---- language changes while start_lsp is in progress
\* C39: whatever languages are selected and whenever, the window holds an
\* LSP client only while the language selected is Python, and every client
\* that was created and is no longer the one the window holds has been told
\* to exit.
C39_ClientOnlyForPython ==
    /\ window.lsp_client # 0 => window.language = "python3"
    /\ \A k \in DOMAIN window.clients : k # window.lsp_client => window.clients[k].exit

====
